---- MODULE Spec2Model ----
(***************************************************************************)
(* ContractGuard risk analysis engine: the analysis orchestrator           *)
(* (AnalysisController), the persistence layer (ContractModel over the     *)
(* pooled query helper), the finding aggregator and the risk scorer.       *)
(*                                                                         *)
(* Strings the code inspects character by character (risk_type,            *)
(* problematic_text) are sequences of one-character strings; strings the   *)
(* code only passes along (explanation, error messages) are TLA+ strings.  *)
(***************************************************************************)
EXTENDS Integers, Sequences, FiniteSets, TLC

\* ------------------------------------------------------------------ bounds
NumDocs == 2        \* documents that can be uploaded
MaxAttempts == 2    \* analysis attempts dispatched in one run
NumConns == 2       \* pooled database clients in use
MaxCount == 8       \* findings of one severity given to the scorer
MaxOverlaps == 1    \* times queries of other requests overlap with the run
MaxFindings == 2    \* findings in each list given to the aggregator
MaxWords == 3       \* clauses a text given to the Pattern Matcher is made of
MaxRuns == 2        \* Pattern Matcher runs on the text under study
MaxOthers == 1      \* Pattern Matcher runs on other texts
MaxTests == 1       \* testPattern calls
MaxClauses == 2     \* sentences of a scenario text
MaxCalls == 2       \* calls of the Semantic Analyzer client
MaxProbes == 2      \* testPattern calls on one text
MaxSections == 2    \* sections given to analyzeSections

Docs == 1..NumDocs
Attempts == 1..MaxAttempts
Conns == 1..NumConns

\* ------------------------------------------------------- program constants
KeyPrefixLen == 100     \* substring(0, 100) of the deduplication key
RiskTypeMax == 50       \* risk_type VARCHAR(50)
MinSentenceLen == 10    \* sentences kept: s.trim().length > 10
ContextMax == 500       \* problematic_text is cut at 500 characters

NULL == "NULL"
\* A missing problematic_text: no sequence of characters, since every character
\* is a one-character string.
Undefined == <<"undefined">>
Levels == {"HIGH", "MEDIUM", "LOW"}

\* ----------------------------------------------------------------- helpers
Min(a, b) == IF a < b THEN a ELSE b

\* String.prototype.substring(0, n)
Substring0(s, n) == SubSeq(s, 1, Min(Len(s), n))

Range(s) == {s[i] : i \in 1..Len(s)}

RECURSIVE CountLevel(_, _)
\* findings.filter(f => f.risk_level === level).length
CountLevel(findings, level) ==
  IF findings = <<>> THEN 0
  ELSE (IF Head(findings).risk_level = level THEN 1 ELSE 0)
       + CountLevel(Tail(findings), level)

\* ------------------------------------------------------------- risk scorer
\* A variant that escalates on three MEDIUM findings.
RiskCalculationMedium3(highRiskCount, mediumRiskCount, lowRiskCount) ==
  IF highRiskCount >= 3 THEN "HIGH"
  ELSE IF highRiskCount >= 1 \/ mediumRiskCount >= 3 THEN "HIGH"
  ELSE IF mediumRiskCount >= 2 \/ lowRiskCount >= 8 THEN "MEDIUM"
  ELSE "LOW"

\* A variant whose LOW threshold is off by one (more than 8).
RiskCalculationLow9(highRiskCount, mediumRiskCount, lowRiskCount) ==
  IF highRiskCount >= 3 THEN "HIGH"
  ELSE IF highRiskCount >= 1 \/ mediumRiskCount >= 5 THEN "HIGH"
  ELSE IF mediumRiskCount >= 2 \/ lowRiskCount > 8 THEN "MEDIUM"
  ELSE "LOW"

\* A variant that tests for exactly one HIGH finding in the second branch.
RiskCalculationExactlyOne(highRiskCount, mediumRiskCount, lowRiskCount) ==
  IF highRiskCount >= 3 THEN "HIGH"
  ELSE IF highRiskCount = 1 \/ mediumRiskCount >= 5 THEN "HIGH"
  ELSE IF mediumRiskCount >= 2 \/ lowRiskCount >= 8 THEN "MEDIUM"
  ELSE "LOW"

\* The if-chain of calculateOverallRiskScore over the three counts.
RiskCalculation(highRiskCount, mediumRiskCount, lowRiskCount) ==
  IF highRiskCount >= 3 THEN "HIGH"
  ELSE IF highRiskCount >= 1 \/ mediumRiskCount >= 5 THEN "HIGH"
  ELSE IF mediumRiskCount >= 2 \/ lowRiskCount >= 8 THEN "MEDIUM"
  ELSE "LOW"

calculateOverallRiskScore(findings) ==
  IF Len(findings) = 0 THEN "LOW"
  ELSE RiskCalculation(CountLevel(findings, "HIGH"),
                       CountLevel(findings, "MEDIUM"),
                       CountLevel(findings, "LOW"))

\* -------------------------------------------------------------- aggregator
\* `${finding.risk_type}_${finding.problematic_text?.substring(0, 100)}`
DedupKey(finding) ==
  finding.risk_type \o <<"_">> \o
    (IF finding.problematic_text = Undefined
       THEN <<"u", "n", "d", "e", "f", "i", "n", "e", "d">>
       ELSE Substring0(finding.problematic_text, KeyPrefixLen))

RECURSIVE DedupFromNoAdd(_, _, _)
\* A variant that never records the keys it has seen.
DedupFromNoAdd(findings, seenFindings, uniqueFindings) ==
  IF findings = <<>> THEN uniqueFindings
  ELSE LET key == DedupKey(Head(findings)) IN
       IF key \in seenFindings
         THEN DedupFromNoAdd(Tail(findings), seenFindings, uniqueFindings)
         ELSE DedupFromNoAdd(Tail(findings), seenFindings,
                             Append(uniqueFindings, Head(findings)))

RECURSIVE DedupFrom(_, _, _)
DedupFrom(findings, seenFindings, uniqueFindings) ==
  IF findings = <<>> THEN uniqueFindings
  ELSE LET key == DedupKey(Head(findings)) IN
       IF key \in seenFindings
         THEN DedupFrom(Tail(findings), seenFindings, uniqueFindings)
         ELSE DedupFrom(Tail(findings), seenFindings \cup {key},
                        Append(uniqueFindings, Head(findings)))

deduplicateFindings(findings) == DedupFrom(findings, {}, <<>>)

\* A variant that puts the Semantic Analyzer's findings first.
CombineOpenAIFirst(patternFindings, openaiFindings) ==
  openaiFindings \o patternFindings

\* [...patternFindings, ...openaiFindings]
Combine(patternFindings, openaiFindings) ==
  patternFindings \o openaiFindings

\* ---------------------------------------------------------------- findings
\* RISK_PATTERNS entry 'Short Notice Requirements' as the finding built from
\* it (risk type NOTICE_REQUIREMENTS, abbreviated).
pNotice ==
  [risk_type |-> <<"N", "O", "T">>, risk_level |-> "MEDIUM",
   problematic_text |-> <<"w", "2", "4">>, explanation |-> "pattern"]

\* Findings of the Semantic Analyzer, passed on as received (part_009:126-134):
\* the risk_level is whatever the upstream JSON holds.
oHigh ==
  [risk_type |-> <<"L", "I", "A">>, risk_level |-> "HIGH",
   problematic_text |-> <<"u", "l">>, explanation |-> "openai"]
oLow ==
  [risk_type |-> <<"S", "C", "O">>, risk_level |-> "LOW",
   problematic_text |-> <<"s", "c">>, explanation |-> "openai"]
oCritical ==
  [risk_type |-> <<"T", "I", "M">>, risk_level |-> "CRITICAL",
   problematic_text |-> <<"t", "m">>, explanation |-> "openai"]

\* Extracted texts: none (a PDF without a text layer), blanks and line breaks
\* only, a text no catalog pattern matches, a text with one 'within 24 hours'
\* sentence.
EmptyText == ""
WhitespaceText == " \n "
CleanText == "clean"
NoticeText == "notice"
Texts == {EmptyText, WhitespaceText, CleanText, NoticeText}

\* String.prototype.trim on the extracted texts.
TrimText(text) == IF text = WhitespaceText THEN EmptyText ELSE text

\* !contractText || contractText.trim().length === 0
IsBlank(text) == TrimText(text) = EmptyText

\* PatternAnalysisService.analyzeContract on the three texts.
PatternAnalyze(text) ==
  IF IsBlank(text) THEN [ok |-> FALSE, findings |-> <<>>]
  ELSE IF text = NoticeText THEN [ok |-> TRUE, findings |-> <<pNotice>>]
  ELSE [ok |-> TRUE, findings |-> <<>>]

\* OpenAIAnalysisService.analyzeContract: a thrown error or a finding list.
OpenAIResponses ==
  {[ok |-> FALSE, findings |-> <<>>]}
  \cup {[ok |-> TRUE, findings |-> fs] :
          fs \in {<<>>, <<oHigh>>, <<oLow, oCritical>>}}

\* ------------------------------------------------------------ the database
\* PostgreSQL under READ COMMITTED. A client that has run BEGIN keeps its
\* writes to itself until COMMIT; a client outside a transaction commits each
\* statement at once. After an error inside a transaction the client refuses
\* every statement but COMMIT and ROLLBACK.
NoRow == [exists |-> FALSE]
Untouched == [untouched |-> TRUE]

ConnFresh ==
  [tx |-> "none", cw |-> [d \in Docs |-> Untouched], del |-> {}, ins |-> {}]

RowsOf(rows, d) == {r \in rows : r.contract_id = d}

\* The contracts row of d as a statement on client c sees it.
ViewContract(db, c, d) ==
  IF db.conn[c].tx = "open" /\ db.conn[c].cw[d] # Untouched
    THEN db.conn[c].cw[d]
    ELSE db.contracts[d]

\* The risk_findings rows of d as a statement on client c sees them.
ViewFindings(db, c, d) ==
  IF db.conn[c].tx = "open"
    THEN (RowsOf(db.risk_findings, d) \ db.conn[c].del)
         \cup RowsOf(db.conn[c].ins, d)
    ELSE RowsOf(db.risk_findings, d)

Aborted(db, c) == db.conn[c].tx = "aborted"

\* query('BEGIN')
SqlBegin(db, c) ==
  IF Aborted(db, c) THEN [db |-> db, err |-> TRUE]
  ELSE IF db.conn[c].tx = "open" THEN [db |-> db, err |-> FALSE]
  ELSE [db |-> [db EXCEPT !.conn[c] = [ConnFresh EXCEPT !.tx = "open"]],
        err |-> FALSE]

\* query('COMMIT')
SqlCommit(db, c) ==
  IF db.conn[c].tx = "open"
    THEN [db |->
            [contracts |->
               [d \in Docs |-> IF db.conn[c].cw[d] # Untouched
                                 THEN db.conn[c].cw[d] ELSE db.contracts[d]],
             risk_findings |->
               (db.risk_findings \ db.conn[c].del) \cup db.conn[c].ins,
             conn |-> [db.conn EXCEPT ![c] = ConnFresh]],
          err |-> FALSE]
    ELSE [db |-> [db EXCEPT !.conn[c] = ConnFresh], err |-> FALSE]

\* query('ROLLBACK')
SqlRollback(db, c) ==
  [db |-> [db EXCEPT !.conn[c] = ConnFresh], err |-> FALSE]

\* SELECT * FROM contracts WHERE id = $1
SqlSelectContract(db, c, d) ==
  IF Aborted(db, c) THEN [err |-> TRUE, row |-> NoRow]
  ELSE [err |-> FALSE, row |-> ViewContract(db, c, d)]

\* SELECT * FROM risk_findings WHERE contract_id = $1
SqlSelectFindings(db, c, d) ==
  IF Aborted(db, c) THEN [err |-> TRUE, rows |-> {}]
  ELSE [err |-> FALSE, rows |-> ViewFindings(db, c, d)]

\* A row another client has written and not yet committed is locked.
ContractLocked(db, c, d) ==
  /\ db.contracts[d] # NoRow
  /\ \E c2 \in Conns \ {c} :
       db.conn[c2].tx # "none" /\ db.conn[c2].cw[d] # Untouched

FindingsLocked(db, c, d) ==
  \E c2 \in Conns \ {c} :
    db.conn[c2].tx # "none"
    /\ db.conn[c2].del \cap RowsOf(db.risk_findings, d) # {}

\* A client that has run BEGIN writes to its own transaction.
WriteContract(db, c, d, row) ==
  IF db.conn[c].tx = "open"
    THEN [db EXCEPT !.conn[c].cw[d] = row]
    ELSE [db EXCEPT !.contracts[d] = row]

\* INSERT INTO contracts (...) VALUES (...) RETURNING id, ...
SqlInsertContract(db, c, d, text) ==
  IF Aborted(db, c) THEN [db |-> db, err |-> TRUE]
  ELSE [db |-> WriteContract(db, c, d,
                 [extracted_text |-> text, risk_score |-> NULL,
                  analysis_completed |-> FALSE]),
        err |-> FALSE]

\* UPDATE contracts SET risk_score = $2, analysis_completed = $3 WHERE id = $1
SqlUpdateContract(db, c, d, score, completed) ==
  IF Aborted(db, c) THEN [db |-> db, err |-> TRUE, n |-> 0]
  ELSE IF ViewContract(db, c, d) = NoRow THEN [db |-> db, err |-> FALSE, n |-> 0]
  ELSE [db |-> WriteContract(db, c, d,
                 [ViewContract(db, c, d) EXCEPT !.risk_score = score,
                                                !.analysis_completed = completed]),
        err |-> FALSE, n |-> 1]

\* DELETE FROM risk_findings WHERE contract_id = $1
SqlDeleteFindings(db, c, d) ==
  IF Aborted(db, c) THEN [db |-> db, err |-> TRUE]
  ELSE IF db.conn[c].tx = "open"
    THEN [db |-> [db EXCEPT
                    !.conn[c].del = @ \cup RowsOf(db.risk_findings, d),
                    !.conn[c].ins = @ \ RowsOf(db.conn[c].ins, d)],
          err |-> FALSE]
    ELSE [db |-> [db EXCEPT !.risk_findings = @ \ RowsOf(db.risk_findings, d)],
          err |-> FALSE]

\* risk_type VARCHAR(50), risk_level CHECK (risk_level IN ('HIGH', 'MEDIUM',
\* 'LOW')), contract_id REFERENCES contracts(id)
RowAccepted(db, c, row) ==
  /\ Len(row.risk_type) <= RiskTypeMax
  /\ row.risk_level \in Levels
  /\ ViewContract(db, c, row.contract_id) # NoRow

\* INSERT INTO risk_findings (...) VALUES ($1, $2, $3, $4, $5)
SqlInsertFinding(db, c, row) ==
  IF Aborted(db, c) THEN [db |-> db, err |-> TRUE]
  ELSE IF ~RowAccepted(db, c, row)
    THEN [db |-> IF db.conn[c].tx = "open"
                   THEN [db EXCEPT !.conn[c].tx = "aborted"] ELSE db,
          err |-> TRUE]
  ELSE IF db.conn[c].tx = "open"
    THEN [db |-> [db EXCEPT !.conn[c].ins = @ \cup {row}], err |-> FALSE]
    ELSE [db |-> [db EXCEPT !.risk_findings = @ \cup {row}], err |-> FALSE]

\* ------------------------------------------------------------------- state
VARIABLES
  contracts,      \* committed rows of table contracts, by id
  risk_findings,  \* committed rows of table risk_findings
  conn,           \* per pooled client: transaction state and pending writes
  top,            \* the idle client pool.query hands out next
  overlaps,       \* times the idle list was reordered so far
  nextId,         \* next value of contracts.id (SERIAL)
  att,            \* the performAnalysis runs, by dispatch order
  resp,           \* the last HTTP response sent
  scorer,         \* the risk scorer applied to a finding set
  agg,            \* the aggregator applied to two finding lists
  matcher,        \* the Pattern Matcher: its catalog's regex state and runs
  semantic,       \* the Semantic Analyzer client: a call and what it gave
  poller          \* the browser's pollAnalysisStatus: its timer and promise

vars == <<contracts, risk_findings, conn, top, overlaps, nextId, att, resp, scorer,
          agg, matcher, semantic, poller>>

DB == [contracts |-> contracts, risk_findings |-> risk_findings, conn |-> conn]

SetDB(db) ==
  /\ contracts' = db.contracts
  /\ risk_findings' = db.risk_findings
  /\ conn' = db.conn

AttIdle ==
  [pc |-> "idle", doc |-> 0, text |-> EmptyText, unique |-> <<>>,
   riskScore |-> NULL, i |-> 0, openaiOk |-> FALSE, error |-> "none"]

NoResponse == [req |-> "none"]
ScorerIdle == [high |-> 0, medium |-> 0, low |-> 0, out |-> "none", plus |-> "none"]
AggIdle == [pattern |-> <<>>, openai |-> <<>>, out |-> <<>>, ran |-> FALSE]
MatcherIdle == [pc |-> "off"]
SemanticIdle == [pc |-> "off"]
PollerIdle == [pc |-> "off"]

Init ==
  /\ contracts = [d \in Docs |-> NoRow]
  /\ risk_findings = {}
  /\ conn = [c \in Conns |-> ConnFresh]
  /\ top = 1
  /\ overlaps = 0
  /\ nextId = 1
  /\ att = [a \in Attempts |-> AttIdle]
  /\ resp = NoResponse
  /\ scorer = ScorerIdle
  /\ agg = AggIdle
  /\ semantic = SemanticIdle
  /\ poller = PollerIdle
  /\ matcher = MatcherIdle

\* ----------------------------------------------------------------- attempts
InFlight(a) == att[a].pc \notin {"idle", "done", "failed"}
Free(a) == att[a].pc = "idle" /\ \A b \in Attempts : b < a => att[b].pc # "idle"

\* AnalysisController.performAnalysis(contractId, extractedText) is called:
\* it runs to its first await, the pool.query of BEGIN.
Dispatched(a, d, text) ==
  [att EXCEPT ![a] = [AttIdle EXCEPT !.pc = "pa_begin", !.doc = d, !.text = text]]

Goto(a, pc) == [att EXCEPT ![a].pc = pc]
Throw(a, pc, error) == [att EXCEPT ![a].pc = pc, ![a].error = error]

\* pool.query: the statement runs on the client on top of the idle list,
\* which goes back on top when the statement is done.
PoolClient == top

\* Requests whose queries are in flight together (getContracts runs two in
\* Promise.all) take several clients off the idle list and put them back in
\* the order their statements finish: any of them may end up on top.
ConcurrentQueries ==
  /\ overlaps < MaxOverlaps
  /\ overlaps' = overlaps + 1
  /\ \E c \in Conns \ {top} : top' = c
  /\ UNCHANGED <<contracts, risk_findings, conn, nextId, att, resp, scorer, agg, matcher, semantic, poller>>

\* performAnalysis, steps 2 to 4: the Semantic Analyzer has answered. The
\* variant persists the Pattern Matcher's findings alone when it failed.
OpenAIStepDegraded(rec, response) ==
  LET allFindings == Combine(PatternAnalyze(rec.text).findings, response.findings)
      uniqueFindings == deduplicateFindings(allFindings)
  IN [rec EXCEPT !.pc = "ua_begin", !.openaiOk = response.ok,
                 !.unique = uniqueFindings,
                 !.riskScore = calculateOverallRiskScore(uniqueFindings)]

OpenAIStep(rec, response) ==
  IF ~response.ok
    THEN [rec EXCEPT !.pc = "pa_rollback",
                     !.error = "Failed to perform OpenAI analysis"]
    ELSE LET allFindings == Combine(PatternAnalyze(rec.text).findings, response.findings)
             uniqueFindings == deduplicateFindings(allFindings)
         IN [rec EXCEPT !.pc = "ua_begin", !.openaiOk = TRUE,
                        !.unique = uniqueFindings,
                        !.riskScore = calculateOverallRiskScore(uniqueFindings)]

\* The row updateAnalysis inserts for the i-th finding.
FindingRow(a, i) ==
  [contract_id |-> att[a].doc, id |-> <<a, i>>,
   risk_type |-> att[a].unique[i].risk_type,
   risk_level |-> att[a].unique[i].risk_level,
   problematic_text |-> att[a].unique[i].problematic_text,
   explanation |-> att[a].unique[i].explanation]

Rest == <<top, overlaps, nextId, resp, scorer, agg, matcher, semantic, poller>>

\* performAnalysis: await query('BEGIN'), then step 1, the Pattern Matcher.
PA_Begin(a) ==
  /\ att[a].pc = "pa_begin"
  /\ LET r == SqlBegin(DB, PoolClient) IN
       /\ SetDB(r.db)
       /\ att' = IF r.err THEN Throw(a, "pa_rollback", "query failed")
                 ELSE IF ~PatternAnalyze(att[a].text).ok
                   THEN Throw(a, "pa_rollback",
                              "Contract text is required for pattern analysis")
                 ELSE Goto(a, "openai")
  /\ UNCHANGED Rest

\* performAnalysis: await OpenAIAnalysisService.analyzeContract(extractedText)
PA_OpenAI(a) ==
  /\ att[a].pc = "openai"
  /\ \E response \in OpenAIResponses :
       att' = [att EXCEPT ![a] = OpenAIStep(att[a], response)]
  /\ UNCHANGED <<contracts, risk_findings, conn>>
  /\ UNCHANGED Rest

\* updateAnalysis: await query('BEGIN')
UA_Begin(a) ==
  /\ att[a].pc = "ua_begin"
  /\ LET r == SqlBegin(DB, PoolClient) IN
       /\ SetDB(r.db)
       /\ att' = IF r.err THEN Goto(a, "ua_rollback") ELSE Goto(a, "ua_update")
  /\ UNCHANGED Rest

\* updateAnalysis: UPDATE contracts ... RETURNING *
UA_Update(a) ==
  /\ att[a].pc = "ua_update"
  /\ ~ContractLocked(DB, PoolClient, att[a].doc)
  /\ LET r == SqlUpdateContract(DB, PoolClient, att[a].doc, att[a].riskScore, TRUE)
     IN
       /\ SetDB(r.db)
       /\ att' = IF r.err THEN Goto(a, "ua_rollback")
                 ELSE IF r.n = 0 THEN Goto(a, "ua_norow")
                 ELSE IF Len(att[a].unique) > 0 THEN Goto(a, "ua_delete")
                 ELSE Goto(a, "ua_commit")
  /\ UNCHANGED Rest

\* updateAnalysis: no row was updated: ROLLBACK and return null
UA_NoRow(a) ==
  /\ att[a].pc = "ua_norow"
  /\ SetDB(SqlRollback(DB, PoolClient).db)
  /\ att' = Goto(a, "pa_commit")
  /\ UNCHANGED Rest

\* updateAnalysis: DELETE FROM risk_findings WHERE contract_id = $1
UA_Delete(a) ==
  /\ att[a].pc = "ua_delete"
  /\ ~FindingsLocked(DB, PoolClient, att[a].doc)
  /\ LET r == SqlDeleteFindings(DB, PoolClient, att[a].doc) IN
       /\ SetDB(r.db)
       /\ att' = IF r.err THEN Goto(a, "ua_rollback")
                 ELSE [att EXCEPT ![a].pc = "ua_insert", ![a].i = 1]
  /\ UNCHANGED Rest

\* updateAnalysis: one INSERT INTO risk_findings of the for loop
UA_Insert(a) ==
  /\ att[a].pc = "ua_insert"
  /\ LET r == SqlInsertFinding(DB, PoolClient, FindingRow(a, att[a].i)) IN
       /\ SetDB(r.db)
       /\ att' = IF r.err THEN Goto(a, "ua_rollback")
                 ELSE IF att[a].i = Len(att[a].unique) THEN Goto(a, "ua_commit")
                 ELSE [att EXCEPT ![a].i = @ + 1]
  /\ UNCHANGED Rest

\* updateAnalysis: await query('COMMIT')
UA_Commit(a) ==
  /\ att[a].pc = "ua_commit"
  /\ SetDB(SqlCommit(DB, PoolClient).db)
  /\ att' = Goto(a, "ua_find")
  /\ UNCHANGED Rest

\* updateAnalysis: return await this.findById(contractId)
UA_Find(a) ==
  /\ att[a].pc = "ua_find"
  /\ att' = IF SqlSelectContract(DB, PoolClient, att[a].doc).err
              THEN Goto(a, "ua_rollback") ELSE Goto(a, "pa_commit")
  /\ UNCHANGED <<contracts, risk_findings, conn>>
  /\ UNCHANGED Rest

\* updateAnalysis, catch: ROLLBACK and throw
UA_Rollback(a) ==
  /\ att[a].pc = "ua_rollback"
  /\ SetDB(SqlRollback(DB, PoolClient).db)
  /\ att' = Throw(a, "pa_rollback", "Failed to update contract analysis")
  /\ UNCHANGED Rest

\* performAnalysis: await query('COMMIT')
PA_Commit(a) ==
  /\ att[a].pc = "pa_commit"
  /\ SetDB(SqlCommit(DB, PoolClient).db)
  /\ att' = Goto(a, "done")
  /\ UNCHANGED Rest

\* performAnalysis, catch: ROLLBACK and rethrow. The caller's .catch logs the
\* error; updateAnalysisStatus stores nothing.
PA_Rollback(a) ==
  /\ att[a].pc = "pa_rollback"
  /\ SetDB(SqlRollback(DB, PoolClient).db)
  /\ att' = Goto(a, "failed")
  /\ UNCHANGED Rest

\* ------------------------------------------------------------ HTTP handlers
\* A variant that starts an attempt whatever analysis_completed says.
AnalyzeOutcomeNoGuard(sel) ==
  IF sel.err THEN "error"
  ELSE IF sel.row = NoRow THEN "not_found"
  ELSE IF IsBlank(sel.row.extracted_text) THEN "no_text"
  ELSE "accepted"

\* analyzeContract: the checks between findByIdAndUserId and the dispatch.
AnalyzeOutcome(sel) ==
  IF sel.err THEN "error"
  ELSE IF sel.row = NoRow THEN "not_found"
  ELSE IF IsBlank(sel.row.extracted_text) THEN "no_text"
  ELSE IF sel.row.analysis_completed THEN "already_completed"
  ELSE "accepted"

\* POST /:id/analyze
AnalyzeContract(d) ==
  LET sel == SqlSelectContract(DB, PoolClient, d)
      outcome == AnalyzeOutcome(sel)
  IN /\ outcome = "accepted" => \E a \in Attempts : Free(a)
     /\ att' = IF outcome = "accepted"
                 THEN Dispatched(CHOOSE a \in Attempts : Free(a), d,
                                 sel.row.extracted_text)
                 ELSE att
     /\ resp' = [req |-> "analyze", doc |-> d, outcome |-> outcome,
                 found |-> ~sel.err /\ sel.row # NoRow,
                 seenText |-> IF ~sel.err /\ sel.row # NoRow
                                THEN sel.row.extracted_text ELSE EmptyText,
                 seenCompleted |-> IF ~sel.err /\ sel.row # NoRow
                                     THEN sel.row.analysis_completed ELSE FALSE]
     /\ UNCHANGED <<contracts, risk_findings, conn, top, overlaps, nextId, scorer, agg, matcher, semantic, poller>>

\* POST /upload: the INSERT INTO contracts, then the automatic trigger, which
\* calls performAnalysis with the extracted text and no check.
UploadContract(text) ==
  /\ nextId <= NumDocs
  /\ \E a \in Attempts : Free(a)
  /\ LET r == SqlInsertContract(DB, PoolClient, nextId, text) IN
       /\ SetDB(r.db)
       /\ att' = IF r.err THEN att
                 ELSE Dispatched(CHOOSE a \in Attempts : Free(a), nextId, text)
       /\ nextId' = IF r.err THEN nextId ELSE nextId + 1
       /\ resp' = [req |-> "upload", doc |-> nextId, ok |-> ~r.err]
  /\ UNCHANGED <<top, overlaps, scorer, agg, matcher, semantic, poller>>

\* The latest attempt dispatched for d, 0 when there is none.
LatestAttempt(d) ==
  IF \E a \in Attempts : att[a].doc = d
    THEN CHOOSE a \in Attempts :
           att[a].doc = d /\ \A b \in Attempts : att[b].doc = d => b <= a
    ELSE 0

\* The latest attempt for d has failed and no attempt was started since.
LastAttemptFailed(d) ==
  LatestAttempt(d) # 0 /\ att[LatestAttempt(d)].pc = "failed"

\* getAnalysisStatus, lines 118-133: the status reported for a contracts row.
StatusOf(contract) ==
  IF contract.analysis_completed THEN "completed"
  ELSE IF contract.extracted_text # EmptyText THEN "in_progress"
  ELSE "pending"

\* GET /:id/analysis/status: findByIdAndUserId, then findById. The SELECTs of
\* one request are taken back to back.
GetAnalysisStatus(d) ==
  LET sel == SqlSelectContract(DB, PoolClient, d)
      fnd == SqlSelectFindings(DB, PoolClient, d)
  IN /\ resp' =
          IF sel.err \/ fnd.err THEN [req |-> "status", doc |-> d, http |-> 500]
          ELSE IF sel.row = NoRow THEN [req |-> "status", doc |-> d, http |-> 404]
          ELSE [req |-> "status", doc |-> d, http |-> 200,
                status |-> StatusOf(sel.row),
                riskScore |-> sel.row.risk_score,
                findingsCount |-> Cardinality(fnd.rows),
                afterFailure |-> LastAttemptFailed(d)]
     /\ UNCHANGED <<contracts, risk_findings, conn, top, overlaps, nextId, att, scorer, agg, matcher, semantic, poller>>

\* GET /:id/analysis/results: findByIdAndUserId, findById, then the check of
\* analysis_completed.
GetAnalysisResults(d) ==
  LET sel == SqlSelectContract(DB, PoolClient, d)
      fnd == SqlSelectFindings(DB, PoolClient, d)
  IN /\ resp' =
          IF sel.err \/ fnd.err THEN [req |-> "results", doc |-> d, http |-> 500]
          ELSE IF sel.row = NoRow THEN [req |-> "results", doc |-> d, http |-> 404]
          ELSE IF ~sel.row.analysis_completed
            THEN [req |-> "results", doc |-> d, http |-> 400]
          ELSE [req |-> "results", doc |-> d, http |-> 200,
                risk_score |-> sel.row.risk_score,
                analysis_completed |-> sel.row.analysis_completed,
                findings |-> {r.id : r \in fnd.rows}]
     /\ UNCHANGED <<contracts, risk_findings, conn, top, overlaps, nextId, att, scorer, agg, matcher, semantic, poller>>

\* ------------------------------------------------------------ specifications
AttemptStep(a) ==
  \/ PA_Begin(a)
  \/ PA_OpenAI(a)
  \/ UA_Begin(a)
  \/ UA_Update(a)
  \/ UA_NoRow(a)
  \/ UA_Delete(a)
  \/ UA_Insert(a)
  \/ UA_Commit(a)
  \/ UA_Find(a)
  \/ UA_Rollback(a)
  \/ PA_Commit(a)
  \/ PA_Rollback(a)

\* Uploads, start requests and the attempts they dispatch, while queries of
\* other requests overlap with them.
Next ==
  \/ \E text \in Texts : UploadContract(text)
  \/ \E d \in Docs : AnalyzeContract(d)
  \/ \E a \in Attempts : AttemptStep(a)
  \/ ConcurrentQueries

Spec == Init /\ [][Next]_vars

\* Uploads, start requests, attempts and the status and result queries, with
\* no two queries in flight together: every statement runs on one client.
NextReaders ==
  \/ \E text \in Texts : UploadContract(text)
  \/ \E d \in Docs : AnalyzeContract(d)
  \/ \E a \in Attempts : AttemptStep(a)
  \/ \E d \in Docs : GetAnalysisStatus(d)
  \/ \E d \in Docs : GetAnalysisResults(d)

SpecReaders == Init /\ [][NextReaders]_vars

\* The risk scorer on its own: any counts of HIGH, MEDIUM and LOW findings.
RECURSIVE Repeat(_, _)
Repeat(x, n) == IF n = 0 THEN <<>> ELSE <<x>> \o Repeat(x, n - 1)

FindingOfLevel(level) ==
  [risk_type |-> <<"X">>, risk_level |-> level,
   problematic_text |-> <<"x">>, explanation |-> "any"]

FindingsWith(high, medium, low) ==
  Repeat(FindingOfLevel("HIGH"), high)
  \o Repeat(FindingOfLevel("MEDIUM"), medium)
  \o Repeat(FindingOfLevel("LOW"), low)

ScorerInit ==
  /\ contracts = [d \in Docs |-> NoRow]
  /\ risk_findings = {}
  /\ conn = [c \in Conns |-> ConnFresh]
  /\ top = 1
  /\ overlaps = 0
  /\ nextId = 1
  /\ att = [a \in Attempts |-> AttIdle]
  /\ resp = NoResponse
  /\ scorer \in [high : 0..MaxCount, medium : 0..MaxCount, low : 0..MaxCount,
                 out : {"none"}, plus : {"none"}]
  /\ agg = AggIdle
  /\ semantic = SemanticIdle
  /\ poller = PollerIdle
  /\ matcher = MatcherIdle

Score ==
  /\ scorer.out = "none"
  /\ scorer' = [scorer EXCEPT !.out = calculateOverallRiskScore(
                  FindingsWith(scorer.high, scorer.medium, scorer.low))]
  /\ UNCHANGED <<contracts, risk_findings, conn, top, overlaps, nextId, att, resp,
                 agg, matcher, semantic, poller>>

\* The scorer on the same finding set with one more HIGH finding.
ScorePlusHigh ==
  /\ scorer.plus = "none"
  /\ scorer' = [scorer EXCEPT !.plus = calculateOverallRiskScore(
                  FindingsWith(scorer.high + 1, scorer.medium, scorer.low))]
  /\ UNCHANGED <<contracts, risk_findings, conn, top, overlaps, nextId, att, resp,
                 agg, matcher, semantic, poller>>

ScorerNext == Score \/ ScorePlusHigh

SpecScorer == ScorerInit /\ [][ScorerNext]_vars

\* The aggregator on its own: steps 3 of performAnalysis on any two finding
\* lists. The categories and texts cover an underscore in the category or in
\* the text, texts that agree on their first 100 characters and differ
\* after, texts that differ at the 100th character, and one (category, text)
\* reported by both the Pattern Matcher and the Semantic Analyzer.
LongPrefix == Repeat("a", KeyPrefixLen)

aShort ==
  [risk_type |-> <<"A">>, risk_level |-> "MEDIUM",
   problematic_text |-> <<"B", "_", "C">>, explanation |-> "pattern"]
aShortOpenAI ==
  [risk_type |-> <<"A">>, risk_level |-> "MEDIUM",
   problematic_text |-> <<"B", "_", "C">>, explanation |-> "openai"]
aUnder ==
  [risk_type |-> <<"A", "_", "B">>, risk_level |-> "HIGH",
   problematic_text |-> <<"C">>, explanation |-> "openai"]
aLongX ==
  [risk_type |-> <<"A">>, risk_level |-> "LOW",
   problematic_text |-> LongPrefix \o <<"x">>, explanation |-> "pattern"]
aLongY ==
  [risk_type |-> <<"A">>, risk_level |-> "LOW",
   problematic_text |-> LongPrefix \o <<"y">>, explanation |-> "openai"]
aLong99 ==
  [risk_type |-> <<"A">>, risk_level |-> "LOW",
   problematic_text |-> SubSeq(LongPrefix, 1, KeyPrefixLen - 1) \o <<"z", "x">>,
   explanation |-> "openai"]

AggFindings == {aShort, aShortOpenAI, aUnder, aLongX, aLongY, aLong99}

SeqsUpTo(S, n) == UNION {[1..k -> S] : k \in 0..n}

AggInit ==
  /\ contracts = [d \in Docs |-> NoRow]
  /\ risk_findings = {}
  /\ conn = [c \in Conns |-> ConnFresh]
  /\ top = 1
  /\ overlaps = 0
  /\ nextId = 1
  /\ att = [a \in Attempts |-> AttIdle]
  /\ resp = NoResponse
  /\ scorer = ScorerIdle
  /\ matcher = MatcherIdle
  /\ semantic = SemanticIdle
  /\ poller = PollerIdle
  /\ agg \in [pattern : SeqsUpTo(AggFindings, MaxFindings),
              openai : SeqsUpTo(AggFindings, MaxFindings),
              out : {<<>>}, ran : {FALSE}]

\* allFindings = [...patternFindings, ...openaiFindings];
\* uniqueFindings = deduplicateFindings(allFindings)
Aggregate ==
  /\ ~agg.ran
  /\ agg' = [agg EXCEPT
               !.out = deduplicateFindings(Combine(agg.pattern, agg.openai)),
               !.ran = TRUE]
  /\ UNCHANGED <<contracts, risk_findings, conn, top, overlaps, nextId, att, resp,
                 scorer, matcher, semantic, poller>>

AggNext == Aggregate

SpecAggregator == AggInit /\ [][AggNext]_vars

\* ---------------------------------------------------------- Pattern Matcher
\* JavaScript strings as sequences of characters.
Whitespace == {" ", "\n"}
Terminators == {".", "!", "?"}

ToLowerChar(c) ==
  CASE c = "P" -> "p" [] c = "W" -> "w" [] c = "I" -> "i" [] OTHER -> c

toLowerCase(str) == [i \in 1..Len(str) |-> ToLowerChar(str[i])]

RECURSIVE TrimStart(_)
TrimStart(str) ==
  IF str # <<>> /\ Head(str) \in Whitespace THEN TrimStart(Tail(str)) ELSE str

RECURSIVE TrimEnd(_)
TrimEnd(str) ==
  IF str # <<>> /\ str[Len(str)] \in Whitespace
    THEN TrimEnd(SubSeq(str, 1, Len(str) - 1))
    ELSE str

trim(str) == TrimEnd(TrimStart(str))

\* .replace(/\s+/g, ' '): a blank for the first character of every run of
\* whitespace, nothing for the others.
CollapseWhitespace(str) ==
  LET marked == [i \in 1..Len(str) |->
                   [c |-> IF str[i] \in Whitespace THEN " " ELSE str[i],
                    keep |-> ~(/\ str[i] \in Whitespace
                               /\ i > 1
                               /\ str[i - 1] \in Whitespace)]]
      Kept(m) == m.keep
      kept == SelectSeq(marked, Kept)
  IN [i \in 1..Len(kept) |-> kept[i].c]

\* .replace(/\n\s*\n/g, '\n'): after the replacement above the string holds no
\* line break, so nothing matches.
CollapseParagraphBreaks(str) == str

normalize(contractText) ==
  trim(CollapseParagraphBreaks(CollapseWhitespace(contractText)))

RECURSIVE SplitFrom(_, _)
\* .split(/[.!?]+/) from position i: the pieces between runs of terminators,
\* empty pieces included.
SplitFrom(str, i) ==
  LET ts == {t \in i..Len(str) : str[t] \in Terminators} IN
  IF ts = {} THEN <<SubSeq(str, i, Len(str))>>
  ELSE LET t == CHOOSE t1 \in ts : \A t2 \in ts : t1 <= t2
           after == {u \in t..Len(str) : str[u] \notin Terminators}
           next == IF after = {} THEN Len(str) + 1
                   ELSE CHOOSE u1 \in after : \A u2 \in after : u1 <= u2
       IN <<SubSeq(str, i, t - 1)>> \o SplitFrom(str, next)

LongEnough(sentence) == Len(trim(sentence)) > MinSentenceLen

splitSentences(normalizedText) ==
  SelectSeq(SplitFrom(normalizedText, 1), LongEnough)

\* A catalog regular expression /alt1|alt2|.../gi as its alternatives in the
\* order the alternation tries them. An alternative is the sequence of its
\* segments, the parts that '.*' separates; a segment is the sequence of the
\* lower-case literals its groups and '?' expand to, in the order the
\* expression tries them.
StartsWithAt(str, literal, i) ==
  /\ i + Len(literal) - 1 <= Len(str)
  /\ \A k \in 1..Len(literal) : ToLowerChar(str[i + k - 1]) = literal[k]

\* Of the ways an alternative matches, each <<k, j, end>> for the k-th literal
\* of its first segment, the rest starting at j and the match ending at end,
\* the one the expression finds: the first literal that matches at all, and
\* for it the greedy '.*', which leaves the rest as far to the right as it
\* can. 0 when there is none.
LeftmostGreedy(ways) ==
  IF ways = {} THEN 0
  ELSE (CHOOSE w \in ways :
          \A v \in ways : w[1] < v[1] \/ (w[1] = v[1] /\ w[2] >= v[2]))[3]

RECURSIVE MatchAlt(_, _, _)
\* The last position of the match of one alternative that starts at i, 0 when
\* there is none.
MatchAlt(str, alt, i) ==
  LeftmostGreedy(
    {w \in UNION {
         IF ~StartsWithAt(str, Head(alt)[k], i) THEN {}
         ELSE IF Len(alt) = 1 THEN {<<k, 0, i + Len(Head(alt)[k]) - 1>>}
         ELSE {<<k, j, MatchAlt(str, Tail(alt), j)>> :
                 j \in (i + Len(Head(alt)[k]))..Len(str)}
         : k \in 1..Len(Head(alt))}
       : w[3] # 0})

NoMatch == [index |-> 0, length |-> 0]

\* Of the ways an expression matches, each <<j, k, end>> for a start j, the
\* k-th alternative and the match's last position, the one exec returns: the
\* leftmost start, and there the first alternative that matches.
FirstMatch(ways) ==
  IF ways = {} THEN NoMatch
  ELSE LET w == CHOOSE w1 \in ways :
                  \A v \in ways : w1[1] < v[1] \/ (w1[1] = v[1] /\ w1[2] <= v[2])
       IN [index |-> w[1], length |-> w[3] - w[1] + 1]

\* The leftmost match that starts at position i or later (positions from 1).
ExecFrom(str, alts, i) ==
  FirstMatch({w \in {<<j, k, MatchAlt(str, alts[k], j)>> :
                       j \in i..Len(str), k \in 1..Len(alts)}
                : w[3] # 0})

RECURSIVE AllMatchesFrom(_, _, _)
AllMatchesFrom(str, alts, i) ==
  LET m == ExecFrom(str, alts, i) IN
  IF m.index = 0 THEN <<>>
  ELSE <<SubSeq(str, m.index, m.index + m.length - 1)>>
       \o AllMatchesFrom(str, alts, m.index + m.length)

\* A variant that searches from the expression's lastIndex.
StringMatchFromLastIndex(str, riskPattern, lastIndex) ==
  AllMatchesFrom(str, riskPattern.alts, lastIndex + 1)

\* str.match(pattern) with the g flag: every match from the start of the
\* string, whatever lastIndex was; no match gives null, here the empty list.
StringMatch(str, riskPattern, lastIndex) ==
  AllMatchesFrom(str, riskPattern.alts, 1)

\* pattern.test(str) with the g flag: searches from lastIndex and leaves
\* lastIndex at the end of the match, or at 0 when there is none.
RegExpTest(str, riskPattern, lastIndex) ==
  LET m == ExecFrom(str, riskPattern.alts, lastIndex + 1) IN
  IF m.index = 0 THEN [result |-> FALSE, lastIndex |-> 0]
  ELSE [result |-> TRUE, lastIndex |-> m.index + m.length - 1]

RECURSIVE UniqueInOrder(_, _)
\* [...new Set(values)]
UniqueInOrder(values, kept) ==
  IF values = <<>> THEN kept
  ELSE IF \E i \in 1..Len(kept) : kept[i] = Head(values)
    THEN UniqueInOrder(Tail(values), kept)
    ELSE UniqueInOrder(Tail(values), Append(kept, Head(values)))

includes(str, part) ==
  \E i \in 1..(Len(str) - Len(part) + 1) :
    SubSeq(str, i, i + Len(part) - 1) = part

\* sentences.find(sentence => sentence.toLowerCase().includes(match...)):
\* the position of the sentence found, 0 for undefined.
FindSentence(sentences, match) ==
  LET is == {i \in 1..Len(sentences) :
               includes(toLowerCase(sentences[i]), toLowerCase(match))} IN
  IF is = {} THEN 0 ELSE CHOOSE i \in is : \A i2 \in is : i <= i2

\* sentences.indexOf(matchingSentence)
IndexOf(sentences, sentence) ==
  CHOOSE i \in 1..Len(sentences) :
    /\ sentences[i] = sentence
    /\ \A i2 \in 1..(i - 1) : sentences[i2] # sentence

RECURSIVE JoinDot(_)
\* contextSentences.join('. ')
JoinDot(parts) ==
  IF parts = <<>> THEN <<>>
  ELSE IF Len(parts) = 1 THEN parts[1]
  ELSE parts[1] \o <<".", " ">> \o JoinDot(Tail(parts))

\* The matching sentence with the sentence before and the sentence after.
Context(sentences, sentenceIndex) ==
  trim(JoinDot(
    (IF sentenceIndex > 1 THEN <<sentences[sentenceIndex - 1]>> ELSE <<>>)
    \o <<sentences[sentenceIndex]>>
    \o (IF sentenceIndex < Len(sentences)
          THEN <<sentences[sentenceIndex + 1]>> ELSE <<>>)))

BuildFinding(riskPattern, match, context) ==
  [risk_type |-> riskPattern.riskType,
   risk_level |-> riskPattern.riskLevel,
   problematic_text |->
     IF Len(context) > ContextMax
       THEN Substring0(context, ContextMax) \o <<".", ".", ".">>
       ELSE context,
   explanation |-> <<riskPattern.explanation, trim(match)>>]

\* A variant that never finds a sentence in matchedSentences.
HasSentenceNever(matchedSentences, matchingSentence) == FALSE

\* matchedSentences.has(matchingSentence)
HasSentence(matchedSentences, matchingSentence) ==
  matchingSentence \in matchedSentences

RECURSIVE MatchLoop(_, _, _, _, _, _)
\* for (const match of uniqueMatches): found holds the findings pushed so far
\* and, beside each, the pattern and the sentence it was built from.
MatchLoop(uniqueMatches, sentences, riskPattern, p, matchedSentences, found) ==
  IF uniqueMatches = <<>> THEN found
  ELSE
    LET match == Head(uniqueMatches)
        at == FindSentence(sentences, match)
    IN IF at # 0 /\ ~HasSentence(matchedSentences, sentences[at])
         THEN LET matchingSentence == sentences[at]
                  sentenceIndex == IndexOf(sentences, matchingSentence)
                  finding == BuildFinding(riskPattern, match,
                                          Context(sentences, sentenceIndex))
              IN MatchLoop(Tail(uniqueMatches), sentences, riskPattern, p,
                           matchedSentences \cup {matchingSentence},
                           [findings |-> Append(found.findings, finding),
                            hits |-> Append(found.hits,
                                            <<p, matchingSentence>>)])
         ELSE MatchLoop(Tail(uniqueMatches), sentences, riskPattern, p,
                        matchedSentences, found)

RECURSIVE PatternLoop(_, _, _, _, _, _)
\* for (const riskPattern of RISK_PATTERNS)
PatternLoop(catalog, p, normalizedText, sentences, lastIndex, found) ==
  IF p > Len(catalog) THEN found
  ELSE
    LET matches == StringMatch(normalizedText, catalog[p], lastIndex[p])
        uniqueMatches ==
          UniqueInOrder([i \in 1..Len(matches) |-> toLowerCase(matches[i])],
                        <<>>)
    IN PatternLoop(catalog, p + 1, normalizedText, sentences, lastIndex,
                   MatchLoop(uniqueMatches, sentences, catalog[p], p, {},
                             found))

\* PatternAnalysisService.deduplicateFindings: the same key and loop as the
\* aggregator's.
patternDeduplicateFindings(findings) == DedupFrom(findings, {}, <<>>)

riskOrder(level) ==
  CASE level = "HIGH" -> 3 [] level = "MEDIUM" -> 2 [] level = "LOW" -> 1
    [] OTHER -> 0

\* A variant whose comparator puts the lower severity first.
CompareAscending(a, b) == riskOrder(a.risk_level) - riskOrder(b.risk_level)

\* (a, b) => (riskOrder[b.risk_level] || 0) - (riskOrder[a.risk_level] || 0)
Compare(a, b) == riskOrder(b.risk_level) - riskOrder(a.risk_level)

RECURSIVE InsertSorted(_, _)
\* x goes before the first element it must precede, after its equals.
InsertSorted(sorted, x) ==
  IF sorted = <<>> THEN <<x>>
  ELSE IF Compare(x, Head(sorted)) < 0 THEN <<x>> \o sorted
  ELSE <<Head(sorted)>> \o InsertSorted(Tail(sorted), x)

RECURSIVE SortFrom(_, _)
\* Array.prototype.sort, which is stable.
SortFrom(findings, sorted) ==
  IF findings = <<>> THEN sorted
  ELSE SortFrom(Tail(findings), InsertSorted(sorted, Head(findings)))

sort(findings) == SortFrom(findings, <<>>)

\* A variant that forgets to trim.
IsBlankTextUntrimmed(contractText) == Len(contractText) = 0

\* !contractText || contractText.trim().length === 0
IsBlankText(contractText) == Len(trim(contractText)) = 0

\* PatternAnalysisService.analyzeContract over a catalog whose expressions
\* have the given lastIndex values.
analyzeContract(contractText, catalog, lastIndex) ==
  IF IsBlankText(contractText)
    THEN [ok |-> FALSE,
          error |-> "Contract text is required for pattern analysis",
          findings |-> <<>>, hits |-> <<>>, unique |-> <<>>, out |-> <<>>]
    ELSE
      LET normalizedText == normalize(contractText)
          sentences == splitSentences(normalizedText)
          found == PatternLoop(catalog, 1, normalizedText, sentences, lastIndex,
                               [findings |-> <<>>, hits |-> <<>>])
          uniqueFindings == patternDeduplicateFindings(found.findings)
      IN [ok |-> TRUE, error |-> "none",
          findings |-> found.findings, hits |-> found.hits,
          unique |-> uniqueFindings, out |-> sort(uniqueFindings)]

\* The catalog, three entries of RISK_PATTERNS with their expressions cut down
\* to two-letter literals without '.*' ('Pay-When-Paid Clause' keeps two
\* alternatives), and a pattern for addCustomPattern.
RISK_PATTERNS ==
  << [name |-> "Pay-When-Paid Clause",
      alts |-> << << << <<"p", "w">> >> >>, << << <<"p", "i">> >> >> >>,
      riskLevel |-> "HIGH", riskType |-> <<"P", "A", "Y">>,
      explanation |-> "Pay-when-paid clauses mean ..."],
     [name |-> "Short Notice Requirements",
      alts |-> << << << <<"n", "t">> >> >> >>,
      riskLevel |-> "MEDIUM", riskType |-> <<"N", "O", "T">>,
      explanation |-> "Short notice requirements ..."],
     [name |-> "Governing Law",
      alts |-> << << << <<"g", "l">> >> >> >>,
      riskLevel |-> "LOW", riskType |-> <<"J", "U", "R">>,
      explanation |-> "Governing law clauses ..."] >>

CustomPattern ==
  [name |-> "Custom", alts |-> << << << <<"n", "t">> >> >> >>,
   riskLevel |-> "HIGH", riskType |-> <<"C", "U", "S">>,
   explanation |-> "custom"]

\* RISK_PATTERNS after addCustomPattern(CustomPattern), or before.
Catalog(custom) ==
  IF custom THEN Append(RISK_PATTERNS, CustomPattern) ELSE RISK_PATTERNS

PatternSlots == 1..(Len(RISK_PATTERNS) + 1)

\* Clauses of a text: a clause of more than ten characters with a phrase of
\* one pattern (in capitals for the second alternative), the first phrase
\* alone in capitals, a full stop, a line break.
cPw == Repeat("a", 9) \o <<" ", "p", "w", " ">>
cPi == Repeat("a", 9) \o <<" ", "P", "I", " ">>
cNt == Repeat("a", 9) \o <<" ", "n", "t", " ">>
cGl == Repeat("a", 9) \o <<" ", "g", "l", " ">>
sPw == <<"P", "W", " ">>
wDot == <<".", " ">>
wBreak == <<"\n">>

Words == {cPw, cPi, cNt, cGl, sPw, wDot, wBreak}

RECURSIVE Concat(_)
Concat(words) ==
  IF words = <<>> THEN <<>> ELSE Head(words) \o Concat(Tail(words))

MatcherTexts == {Concat(ws) : ws \in SeqsUpTo(Words, MaxWords)}

OtherTexts == {cPw \o cNt, wBreak}

MatcherInit ==
  /\ contracts = [d \in Docs |-> NoRow]
  /\ risk_findings = {}
  /\ conn = [c \in Conns |-> ConnFresh]
  /\ top = 1
  /\ overlaps = 0
  /\ nextId = 1
  /\ att = [a \in Attempts |-> AttIdle]
  /\ resp = NoResponse
  /\ scorer = ScorerIdle
  /\ agg = AggIdle
  /\ semantic = SemanticIdle
  /\ poller = PollerIdle
  /\ matcher \in [pc : {"on"}, text : MatcherTexts, custom : {FALSE},
                  lastIndex : {[p \in PatternSlots |-> 0]},
                  runs : {<<>>}, others : {0}, tests : {0}, tested : {<<>>}]

OrchestratorIdle ==
  UNCHANGED <<contracts, risk_findings, conn, top, overlaps, nextId, att, resp,
              scorer, agg, semantic, poller>>

\* lastIndex of every expression of the catalog after a run: each match()
\* call ends with lastIndex 0. A run that throws on its input touches none.
LastIndexAfterRun(result, custom, lastIndex) ==
  IF result.ok
    THEN [p \in PatternSlots |->
            IF p <= Len(Catalog(custom)) THEN 0 ELSE lastIndex[p]]
    ELSE lastIndex

\* PatternAnalysisService.analyzeContract(text) on the text under study.
AnalyzeSubject ==
  /\ matcher.pc = "on"
  /\ Len(matcher.runs) < MaxRuns
  /\ LET result == analyzeContract(matcher.text, Catalog(matcher.custom),
                                   matcher.lastIndex)
     IN matcher' = [matcher EXCEPT
          !.runs = Append(@, [custom |-> matcher.custom,
                              seen |-> matcher.lastIndex,
                              result |-> result]),
          !.lastIndex = LastIndexAfterRun(result, matcher.custom, @)]
  /\ OrchestratorIdle

\* PatternAnalysisService.analyzeContract on another text.
AnalyzeOther ==
  /\ matcher.pc = "on"
  /\ matcher.others < MaxOthers
  /\ \E text \in OtherTexts :
       LET result == analyzeContract(text, Catalog(matcher.custom),
                                     matcher.lastIndex)
       IN matcher' = [matcher EXCEPT
            !.others = @ + 1,
            !.lastIndex = LastIndexAfterRun(result, matcher.custom, @)]
  /\ OrchestratorIdle

PatternNames == {"Pay-When-Paid Clause", "Short Notice Requirements",
                 "Governing Law", "Custom", "No Such Pattern"}

\* RISK_PATTERNS.find(p => p.name === patternName): its position, 0 if none.
FindPattern(catalog, patternName) ==
  LET ps == {p \in 1..Len(catalog) : catalog[p].name = patternName} IN
  IF ps = {} THEN 0 ELSE CHOOSE p \in ps : \A p2 \in ps : p <= p2

\* PatternAnalysisService.testPattern(text, patternName) on the text under
\* study: whether it threw, what it returned, and the lastIndex values it
\* left on the expressions of the catalog.
testPattern(patternName) ==
  LET catalog == Catalog(matcher.custom)
      p == FindPattern(catalog, patternName)
      tested == IF p = 0 THEN [result |-> FALSE, lastIndex |-> 0]
                ELSE RegExpTest(matcher.text, catalog[p], matcher.lastIndex[p])
  IN [threw |-> p = 0,
      result |-> tested.result,
      lastIndex |-> IF p = 0 THEN matcher.lastIndex
                    ELSE [matcher.lastIndex EXCEPT ![p] = tested.lastIndex]]

\* A call of testPattern between the runs of analyzeContract.
TestPattern ==
  /\ matcher.pc = "on"
  /\ matcher.tests < MaxTests
  /\ \E patternName \in PatternNames :
       matcher' = [matcher EXCEPT
         !.tests = @ + 1,
         !.lastIndex = testPattern(patternName).lastIndex]
  /\ OrchestratorIdle

\* A call of testPattern whose outcome the caller keeps.
ProbePattern ==
  /\ matcher.pc = "on"
  /\ Len(matcher.tested) < MaxProbes
  /\ \E patternName \in PatternNames :
       LET call == testPattern(patternName) IN
       matcher' = [matcher EXCEPT
         !.tested = Append(@, [patternName |-> patternName,
                               custom |-> matcher.custom,
                               threw |-> call.threw,
                               result |-> call.result]),
         !.lastIndex = call.lastIndex]
  /\ OrchestratorIdle

\* PatternAnalysisService.addCustomPattern(CustomPattern)
AddCustomPattern ==
  /\ matcher.pc = "on"
  /\ ~matcher.custom
  /\ matcher' = [matcher EXCEPT !.custom = TRUE]
  /\ OrchestratorIdle

MatcherNext ==
  AnalyzeSubject \/ AnalyzeOther \/ TestPattern \/ AddCustomPattern

SpecMatcher == MatcherInit /\ [][MatcherNext]_vars

\* -------------------------------------------------- Semantic Analyzer client
\* Error messages as sequences of words, so that message.includes(phrase) is a
\* search for the words of the phrase.
MsgTextRequired == <<"Contract", "text", "is", "required", "for", "OpenAI", "analysis">>
MsgKeyNotSet ==
  <<"OpenAI", "API", "key", "not", "configured.", "Please", "set", "OPENAI_API_KEY", "environment", "variable.">>
MsgNoResponse == <<"No", "response", "received", "from", "OpenAI">>
MsgInvalidJson == <<"Invalid", "JSON", "response", "from", "OpenAI">>
MsgInvalidStructure == <<"Invalid", "response", "structure", "from", "OpenAI">>
MsgKeyInvalid == <<"OpenAI", "API", "key", "not", "configured", "or", "invalid">>
MsgRateLimit ==
  <<"OpenAI", "rate", "limit", "exceeded.", "Please", "try", "again", "later.">>
MsgQuota ==
  <<"OpenAI", "quota", "exceeded.", "Please", "check", "your", "OpenAI", "account.">>
MsgFailed == <<"Failed", "to", "perform", "OpenAI", "analysis">>
MsgTypeError == <<"Cannot", "read", "properties", "of", "null">>

\* What openai.chat.completions.create can throw: the cause, and the message
\* the library gives the error.
UpstreamErrors ==
  { [cause |-> "auth", message |-> <<"401", "Incorrect", "API", "key", "provided">>],
    [cause |-> "rate_limit",
     message |-> <<"429", "rate", "limit", "reached", "for", "requests">>],
    [cause |-> "rate_limit",
     message |-> <<"429", "Rate", "limit", "reached", "for", "requests">>],
    [cause |-> "quota",
     message |-> <<"429", "You", "exceeded", "your", "current", "quota,", "please", "check", "your", "plan">>],
    [cause |-> "timeout", message |-> <<"Request", "timed", "out.">>] }

\* Findings of an upstream response: well-formed, with a recommendation,
\* without severity (NULL for the missing string), with a severity outside
\* HIGH/MEDIUM/LOW, without text, without category, and null.
uValid ==
  [risk_type |-> <<"T", "I", "M">>, risk_level |-> "HIGH",
   problematic_text |-> <<"t", "m">>, explanation |-> <<"why">>,
   recommendation |-> Undefined]
uRecommended == [uValid EXCEPT !.recommendation = <<"how">>]
uNoLevel == [uValid EXCEPT !.risk_level = NULL]
uCritical == [uValid EXCEPT !.risk_level = "CRITICAL"]
uNoText == [uValid EXCEPT !.problematic_text = Undefined]
uNoType == [uValid EXCEPT !.risk_type = Undefined]
uNull == [null |-> TRUE]

\* message.content of the first choice: none, text that is no JSON, a JSON
\* object without 'findings', with 'findings' that is no array, with an array.
NoContent == [content |-> FALSE]
NotJson == [content |-> TRUE, json |-> FALSE]
JsonNoFindings ==
  [content |-> TRUE, json |-> TRUE, findings |-> [present |-> FALSE]]
JsonFindingsNoArray ==
  [content |-> TRUE, json |-> TRUE,
   findings |-> [present |-> TRUE, array |-> FALSE]]
JsonFindings(elements) ==
  [content |-> TRUE, json |-> TRUE,
   findings |-> [present |-> TRUE, array |-> TRUE, elements |-> elements]]

UpstreamContents ==
  {NoContent, NotJson, JsonNoFindings, JsonFindingsNoArray}
  \cup {JsonFindings(es) :
          es \in {<<>>, <<uValid>>, <<uRecommended>>, <<uNoLevel>>,
                  <<uCritical>>, <<uNoText>>, <<uNoType>>, <<uNull>>,
                  <<uValid, uNoLevel>>}}

Upstreams ==
  {[throws |-> TRUE, error |-> e] : e \in UpstreamErrors}
  \cup {[throws |-> FALSE, completion |-> c] : c \in UpstreamContents}

Threw(message) == [ok |-> FALSE, error |-> message, findings |-> <<>>]

\* analysisResponse.findings.map(finding => ({...})): a null element throws a
\* TypeError when its risk_type is read.
ToRiskFinding(finding) ==
  [risk_type |-> finding.risk_type,
   risk_level |-> finding.risk_level,
   problematic_text |-> finding.problematic_text,
   explanation |->
     IF finding.recommendation # Undefined
       THEN finding.explanation \o <<"Recommendation:">> \o finding.recommendation
       ELSE finding.explanation]

\* The try block of OpenAIAnalysisService.analyzeContract.
TryAnalyze(apiKey, upstream) ==
  IF ~apiKey THEN Threw(MsgKeyNotSet)
  ELSE IF upstream.throws THEN Threw(upstream.error.message)
  ELSE LET responseContent == upstream.completion IN
    IF ~responseContent.content THEN Threw(MsgNoResponse)
    ELSE IF ~responseContent.json THEN Threw(MsgInvalidJson)
    ELSE IF ~responseContent.findings.present THEN Threw(MsgInvalidStructure)
    ELSE IF ~responseContent.findings.array THEN Threw(MsgInvalidStructure)
    ELSE LET elements == responseContent.findings.elements IN
      IF \E i \in 1..Len(elements) : elements[i] = uNull
        THEN Threw(MsgTypeError)
        ELSE [ok |-> TRUE, error |-> <<>>,
              findings |-> [i \in 1..Len(elements) |->
                              ToRiskFinding(elements[i])]]

\* The catch block: the message of the error it throws in place of the one
\* it caught.
CatchError(message) ==
  IF includes(message, <<"API", "key">>) THEN MsgKeyInvalid
  ELSE IF includes(message, <<"rate", "limit">>) THEN MsgRateLimit
  ELSE IF includes(message, <<"quota">>) THEN MsgQuota
  ELSE MsgFailed

\* OpenAIAnalysisService.analyzeContract(contractText)
openaiAnalyzeContract(contractText, apiKey, upstream) ==
  IF IsBlank(contractText) THEN Threw(MsgTextRequired)
  ELSE LET tried == TryAnalyze(apiKey, upstream) IN
       IF tried.ok THEN tried ELSE Threw(CatchError(tried.error))

SemanticInit ==
  /\ contracts = [d \in Docs |-> NoRow]
  /\ risk_findings = {}
  /\ conn = [c \in Conns |-> ConnFresh]
  /\ top = 1
  /\ overlaps = 0
  /\ nextId = 1
  /\ att = [a \in Attempts |-> AttIdle]
  /\ resp = NoResponse
  /\ scorer = ScorerIdle
  /\ agg = AggIdle
  /\ matcher = MatcherIdle
  /\ poller = PollerIdle
  /\ semantic \in [pc : {"on"}, apiKey : BOOLEAN, calls : {<<>>}]

\* One call of OpenAIAnalysisService.analyzeContract and what the upstream
\* did during it.
SemanticAnalyze ==
  /\ semantic.pc = "on"
  /\ Len(semantic.calls) < MaxCalls
  /\ \E contractText \in {EmptyText, WhitespaceText, NoticeText} :
     \E upstream \in Upstreams :
       semantic' = [semantic EXCEPT !.calls = Append(@,
         [text |-> contractText, upstream |-> upstream,
          result |-> openaiAnalyzeContract(contractText, semantic.apiKey,
                                           upstream)])]
  /\ UNCHANGED <<contracts, risk_findings, conn, top, overlaps, nextId, att,
                 resp, scorer, agg, matcher, poller>>

SemanticNext == SemanticAnalyze

SpecSemantic == SemanticInit /\ [][SemanticNext]_vars

\* ------------------------------------------------------------------------
\* The frontend's status polling: contractService.pollAnalysisStatus.
\* ------------------------------------------------------------------------

\* Largest maxAttempts a caller passes in the model.
MaxPollAttempts == 3

\* The bodies of a 200 answer of GET /analysis/:id/status.
StatusResponses ==
  {[status |-> s, error |-> NULL] : s \in {"pending", "in_progress", "completed"}}
    \cup {[status |-> "failed", error |-> e] : e \in {NULL, "Out of memory"}}

NoStatus == [status |-> NULL, error |-> NULL]

\* The errors axios.get rejects with: an answer with a body (with or without a
\* message), a request without an answer, and a failure before the request.
AxiosErrors ==
  {[data |-> TRUE, apiMessage |-> m, request |-> TRUE,
    message |-> "Request failed with status code 500"]
     : m \in {NULL, "Analysis not found"}}
    \cup {[data |-> FALSE, apiMessage |-> NULL, request |-> TRUE,
           message |-> "Network Error"]}
    \cup {[data |-> FALSE, apiMessage |-> NULL, request |-> FALSE, message |-> m]
            : m \in {NULL, "Invalid URL"}}

NoAxiosError ==
  [data |-> FALSE, apiMessage |-> NULL, request |-> FALSE, message |-> NULL]

\* What the server and the network do to one status request.
StatusUpstreams ==
  {[ok |-> TRUE, data |-> d, error |-> NoAxiosError] : d \in StatusResponses}
    \cup {[ok |-> FALSE, data |-> NoStatus, error |-> e] : e \in AxiosErrors}

\* a || b on strings, NULL standing for a missing or empty one.
OrElse(a, b) == IF a = NULL THEN b ELSE a

\* The message of the Error handleApiError throws.
handleApiError(error) ==
  IF error.data THEN OrElse(error.apiMessage, "An API error occurred")
  ELSE IF error.request THEN "Network error: Unable to reach the server"
  ELSE OrElse(error.message, "An unexpected error occurred")

getAnalysisStatus(upstream) ==
  IF upstream.ok
    THEN [threw |-> FALSE, data |-> upstream.data, message |-> NULL]
    ELSE [threw |-> TRUE, data |-> NoStatus,
          message |-> handleApiError(upstream.error)]

Pending == [state |-> "pending", value |-> NULL]
Resolved(value) == [state |-> "resolved", value |-> value]
Rejected(message) == [state |-> "rejected", value |-> message]

\* The message of the error a throwing progress callback raises.
ProgressError == "onProgress threw"

PollingTimeout == "Polling timeout: Analysis did not complete in time"

\* resolve and reject of the promise: only the first call settles it.
Settle(p, outcome) ==
  [p EXCEPT !.settles = @ + 1,
            !.outcome = IF @ = Pending THEN outcome ELSE @,
            !.pc = "returned"]

\* Variant: the attempt limit is compared with > instead of >=.
ExceededLate(attempts, maxAttempts) == attempts > maxAttempts

Exceeded(attempts, maxAttempts) == attempts >= maxAttempts

\* poll() from the answer of getAnalysisStatus on: the progress callback,
\* the three checks, and the timer for the next round.
pollAfterAwait(p, upstream, callbackThrows) ==
  LET got == getAnalysisStatus(upstream)
      status == got.data
      q == [p EXCEPT !.answers = Append(@,
             [upstream |-> upstream,
              threw |-> p.onProgress /\ ~got.threw /\ callbackThrows])]
  IN IF got.threw THEN Settle(q, Rejected(got.message))
     ELSE IF p.onProgress /\ callbackThrows THEN Settle(q, Rejected(ProgressError))
     ELSE IF status.status = "completed" THEN Settle(q, Resolved(status.status))
     ELSE IF status.status = "failed"
       THEN Settle(q, Rejected(OrElse(status.error, "Analysis failed")))
     ELSE IF Exceeded(p.attempts, p.maxAttempts)
       THEN Settle(q, Rejected(PollingTimeout))
     ELSE [q EXCEPT !.pc = "timer"]

\* pollAnalysisStatus has been called: attempts is 0, the promise is pending
\* and poll() is about to run for the first time.
PollerInit ==
  /\ contracts = [d \in Docs |-> NoRow]
  /\ risk_findings = {}
  /\ conn = [c \in Conns |-> ConnFresh]
  /\ top = 1
  /\ overlaps = 0
  /\ nextId = 1
  /\ att = [a \in Attempts |-> AttIdle]
  /\ resp = NoResponse
  /\ scorer = ScorerIdle
  /\ agg = AggIdle
  /\ matcher = MatcherIdle
  /\ semantic = SemanticIdle
  /\ poller \in [pc : {"start"}, maxAttempts : 1..MaxPollAttempts,
                 onProgress : BOOLEAN, attempts : {0}, requests : {0},
                 answers : {<<>>}, settles : {0}, outcome : {Pending}]

\* poll() up to its await: counts the attempt and sends the status request.
\* It runs when pollAnalysisStatus starts it and when the timer fires.
Poll ==
  /\ poller.pc \in {"start", "timer"}
  /\ poller' = [poller EXCEPT !.attempts = @ + 1, !.requests = @ + 1,
                              !.pc = "awaiting"]
  /\ UNCHANGED <<contracts, risk_findings, conn, top, overlaps, nextId, att,
                 resp, scorer, agg, matcher, semantic>>

\* The status request is answered and poll() runs to its end.
Answer ==
  /\ poller.pc = "awaiting"
  /\ \E upstream \in StatusUpstreams, callbackThrows \in BOOLEAN :
       poller' = pollAfterAwait(poller, upstream, callbackThrows)
  /\ UNCHANGED <<contracts, risk_findings, conn, top, overlaps, nextId, att,
                 resp, scorer, agg, matcher, semantic>>

PollerNext == Poll \/ Answer

SpecPoller == PollerInit /\ [][PollerNext]_vars

\* Every status request is answered and every timer fires.
SpecPollerLive == SpecPoller /\ WF_vars(Poll) /\ WF_vars(Answer)

\* ---------------------------------------------------------------- scenarios
\* Three entries of RISK_PATTERNS as written, in catalog order: on a normalized
\* text every run of whitespace is one blank, so '\s+' is a blank.
ScenarioCatalog ==
  << [name |-> "Short Notice Requirements",
      alts |->
      << << << <<"w", "i", "t", "h", "i", "n", " ", "2", "4", " ", "h", "o",
                 "u", "r", "s">> >> >>,
         << << <<"w", "i", "t", "h", "i", "n", " ", "4", "8", " ", "h", "o",
                 "u", "r", "s">> >> >>,
         << << <<"2", " ", "d", "a", "y", "s", " ", "n", "o", "t", "i", "c",
                 "e">>,
               <<"2", " ", "d", "a", "y", " ", "n", "o", "t", "i", "c", "e">> >> >>,
         << << <<"n", "o", "t", "i", "c", "e">> >>,
            << <<"w", "i", "t", "h", "i", "n">> >>,
            << <<"2", "4", " ", "h", "o", "u", "r", "s">>,
               <<"4", "8", " ", "h", "o", "u", "r", "s">> >> >>,
         << << <<"i", "m", "m", "e", "d", "i", "a", "t", "e">> >>,
            << <<"n", "o", "t", "i", "c", "e">> >> >>,
         << << <<"s", "a", "m", "e", " ", "d", "a", "y", " ", "n", "o", "t",
                 "i", "c", "e">> >> >> >>,
      riskLevel |-> "MEDIUM",
      riskType |-> <<"N", "O", "T", "I", "C", "E", "_", "R", "E", "Q", "U", "I", "R",
          "E", "M", "E", "N", "T", "S">>,
      explanation |-> "Short notice requirements (24-48 hours) ..."],
     [name |-> "Termination for Convenience",
      alts |->
      << << << <<"c", "o", "n", "t", "r", "a", "c", "t", "o", "r">>,
               <<"o", "w", "n", "e", "r">>,
               <<"c", "l", "i", "e", "n", "t">>,
               <<"c", "o", "m", "p", "a", "n", "y">> >>,
            << <<"m", "a", "y", " ", "t", "e", "r", "m", "i", "n", "a", "t",
                 "e">>,
               <<"m", "a", "y", " ", "t", "e", "r", "m", "i", "n", "a", "t",
                 "i", "o", "n">> >> >>,
         << << <<"r", "i", "g", "h", "t", " ", "t", "o", " ", "t", "e", "r",
                 "m", "i", "n", "a", "t", "e", " ", "f", "o", "r", " ", "c",
                 "o", "n", "v", "e", "n", "i", "e", "n", "c", "e">>,
               <<"r", "i", "g", "h", "t", " ", "t", "o", " ", "t", "e", "r",
                 "m", "i", "n", "a", "t", "i", "o", "n", " ", "f", "o", "r",
                 " ", "c", "o", "n", "v", "e", "n", "i", "e", "n", "c", "e">> >> >>,
         << << <<"t", "e", "r", "m", "i", "n", "a", "t", "e", " ", "f", "o",
                 "r", " ", "c", "o", "n", "v", "e", "n", "i", "e", "n", "c",
                 "e", " ", "a", "t", " ", "a", "n", "y", " ", "t", "i", "m",
                 "e">>,
               <<"t", "e", "r", "m", "i", "n", "a", "t", "i", "o", "n", " ",
                 "f", "o", "r", " ", "c", "o", "n", "v", "e", "n", "i", "e",
                 "n", "c", "e", " ", "a", "t", " ", "a", "n", "y", " ", "t",
                 "i", "m", "e">> >> >>,
         << << <<"t", "e", "r", "m", "i", "n", "a", "t", "e", " ", "w", "i",
                 "t", "h", "o", "u", "t", " ", "c", "a", "u", "s", "e", " ",
                 "u", "p", "o", "n">>,
               <<"t", "e", "r", "m", "i", "n", "a", "t", "i", "o", "n", " ",
                 "w", "i", "t", "h", "o", "u", "t", " ", "c", "a", "u", "s",
                 "e", " ", "u", "p", "o", "n">> >> >>,
         << << <<"r", "e", "s", "e", "r", "v", "e", "s", " ", "t", "h", "e",
                 " ", "r", "i", "g", "h", "t", " ", "t", "o", " ", "t", "e",
                 "r", "m", "i", "n", "a", "t", "e">>,
               <<"r", "e", "s", "e", "r", "v", "e", "s", " ", "t", "h", "e",
                 " ", "r", "i", "g", "h", "t", " ", "t", "o", " ", "t", "e",
                 "r", "m", "i", "n", "a", "t", "i", "o", "n">>,
               <<"r", "e", "s", "e", "r", "v", "e", " ", "t", "h", "e", " ",
                 "r", "i", "g", "h", "t", " ", "t", "o", " ", "t", "e", "r",
                 "m", "i", "n", "a", "t", "e">>,
               <<"r", "e", "s", "e", "r", "v", "e", " ", "t", "h", "e", " ",
                 "r", "i", "g", "h", "t", " ", "t", "o", " ", "t", "e", "r",
                 "m", "i", "n", "a", "t", "i", "o", "n">> >> >>,
         << << <<"c", "a", "n", " ", "t", "e", "r", "m", "i", "n", "a", "t",
                 "e">>,
               <<"c", "a", "n", " ", "t", "e", "r", "m", "i", "n", "a", "t",
                 "i", "o", "n">> >>,
            << <<"c", "o", "n", "v", "e", "n", "i", "e", "n", "c", "e">> >> >> >>,
      riskLevel |-> "MEDIUM",
      riskType |-> <<"T", "E", "R", "M", "I", "N", "A", "T", "I", "O", "N">>,
      explanation |-> "Termination for convenience allows ..."],
     [name |-> "Notice Requirements",
      alts |->
      << << << <<"w", "r", "i", "t", "t", "e", "n", " ", "n", "o", "t", "i",
                 "c", "e">> >> >>,
         << << <<"n", "o", "t", "i", "c", "e">> >>,
            << <<"r", "e", "q", "u", "i", "r", "e", "d">> >> >>,
         << << <<"s", "h", "a", "l", "l">> >>,
            << <<"n", "o", "t", "i", "f", "y">> >> >> >>,
      riskLevel |-> "LOW",
      riskType |-> <<"N", "O", "T", "I", "C", "E">>,
      explanation |-> "Contract specifies requirements for providing notice ..."] >>

NOTICE_REQUIREMENTS == ScenarioCatalog[1].riskType
TERMINATION == ScenarioCatalog[2].riskType
NOTICE == ScenarioCatalog[3].riskType

\* Clauses of contract texts, in lower case.
\* 'Contractor may terminate for convenience at any time'
cTerminate ==
  <<"c", "o", "n", "t", "r", "a", "c", "t", "o", "r", " ", "m", "a", "y", " ",
    "t", "e", "r", "m", "i", "n", "a", "t", "e", " ", "f", "o", "r", " ", "c",
    "o", "n", "v", "e", "n", "i", "e", "n", "c", "e", " ", "a", "t", " ", "a",
    "n", "y", " ", "t", "i", "m", "e">>

\* The phrase of the scenario alone
cTerminateAnyTime ==
  <<"e", "i", "t", "h", "e", "r", " ", "p", "a", "r", "t", "y", " ", "m", "a",
    "y", " ", "t", "e", "r", "m", "i", "n", "a", "t", "e", " ", "f", "o", "r",
    " ", "c", "o", "n", "v", "e", "n", "i", "e", "n", "c", "e", " ", "a", "t",
    " ", "a", "n", "y", " ", "t", "i", "m", "e">>

\* The clause of the short-notice unit test
cWrittenNotice ==
  <<"s", "u", "b", "c", "o", "n", "t", "r", "a", "c", "t", "o", "r", " ", "m",
    "u", "s", "t", " ", "p", "r", "o", "v", "i", "d", "e", " ", "w", "r", "i",
    "t", "t", "e", "n", " ", "n", "o", "t", "i", "c", "e", " ", "t", "o", " ",
    "c", "o", "n", "t", "r", "a", "c", "t", "o", "r", " ", "w", "i", "t", "h",
    "i", "n", " ", "2", "4", " ", "h", "o", "u", "r", "s", " ", "o", "f", " ",
    "a", "n", "y", " ", "i", "s", "s", "u", "e", " ", "t", "h", "a", "t", " ",
    "m", "a", "y", " ", "a", "f", "f", "e", "c", "t", " ", "t", "h", "e", " ",
    "p", "r", "o", "j", "e", "c", "t">>

\* A short-notice clause without 'written'
cNotice24 ==
  <<"s", "u", "b", "c", "o", "n", "t", "r", "a", "c", "t", "o", "r", " ", "m",
    "u", "s", "t", " ", "p", "r", "o", "v", "i", "d", "e", " ", "n", "o", "t",
    "i", "c", "e", " ", "w", "i", "t", "h", "i", "n", " ", "2", "4", " ", "h",
    "o", "u", "r", "s", " ", "o", "f", " ", "a", "n", "y", " ", "i", "s", "s",
    "u", "e", "s">>

\* The clause of the termination unit test
cReserves ==
  <<"c", "o", "n", "t", "r", "a", "c", "t", "o", "r", " ", "r", "e", "s", "e",
    "r", "v", "e", "s", " ", "t", "h", "e", " ", "r", "i", "g", "h", "t", " ",
    "t", "o", " ", "t", "e", "r", "m", "i", "n", "a", "t", "e", " ", "t", "h",
    "i", "s", " ", "a", "g", "r", "e", "e", "m", "e", "n", "t", " ", "f", "o",
    "r", " ", "c", "o", "n", "v", "e", "n", "i", "e", "n", "c", "e", " ", "w",
    "i", "t", "h", " ", "f", "o", "u", "r", "t", "e", "e", "n", " ", "d", "a",
    "y", "s", " ", "w", "r", "i", "t", "t", "e", "n", " ", "n", "o", "t", "i",
    "c", "e">>

\* A clause no pattern matches
cCapped ==
  <<"l", "i", "a", "b", "i", "l", "i", "t", "y", " ", "s", "h", "a", "l", "l",
    " ", "b", "e", " ", "l", "i", "m", "i", "t", "e", "d", " ", "t", "o", " ",
    "t", "h", "e", " ", "c", "o", "n", "t", "r", "a", "c", "t", " ", "v", "a",
    "l", "u", "e">>

Clauses == {cTerminate, cTerminateAnyTime, cWrittenNotice, cNotice24, cReserves,
            cCapped}

RECURSIVE Sentences(_)
\* The clauses as sentences, each closed by a full stop, on lines of their own.
Sentences(clauses) ==
  IF clauses = <<>> THEN <<>>
  ELSE <<"\n", " ", " ">> \o Head(clauses) \o <<".">> \o Sentences(Tail(clauses))

\* No call of analyzeContract made yet.
NotRun ==
  [ok |-> FALSE, error |-> "not run", findings |-> <<>>, hits |-> <<>>,
   unique |-> <<>>, out |-> <<>>]

ScenarioInit ==
  /\ contracts = [d \in Docs |-> NoRow]
  /\ risk_findings = {}
  /\ conn = [c \in Conns |-> ConnFresh]
  /\ top = 1
  /\ overlaps = 0
  /\ nextId = 1
  /\ att = [a \in Attempts |-> AttIdle]
  /\ resp = NoResponse
  /\ scorer = ScorerIdle
  /\ agg = AggIdle
  /\ semantic = SemanticIdle
  /\ poller = PollerIdle
  /\ matcher \in [pc : {"scenario"}, stage : {"text"},
                  clauses : SeqsUpTo(Clauses, MaxClauses) \ {<<>>},
                  result : {NotRun}, score : {NULL}]

\* PatternAnalysisService.analyzeContract on the text of the scenario.
ScenarioAnalyze ==
  /\ matcher.pc = "scenario"
  /\ matcher.stage = "text"
  /\ matcher' = [matcher EXCEPT
       !.stage = "analyzed",
       !.result = analyzeContract(Sentences(matcher.clauses), ScenarioCatalog,
                                  [p \in 1..Len(ScenarioCatalog) |-> 0])]
  /\ OrchestratorIdle

\* calculateOverallRiskScore on the findings the Pattern Matcher returned.
ScenarioScore ==
  /\ matcher.pc = "scenario"
  /\ matcher.stage = "analyzed"
  /\ matcher' = [matcher EXCEPT
       !.stage = "scored",
       !.score = calculateOverallRiskScore(matcher.result.out)]
  /\ OrchestratorIdle

ScenarioNext == ScenarioAnalyze \/ ScenarioScore

SpecScenario == ScenarioInit /\ [][ScenarioNext]_vars

\* PatternAnalysisService.analyzeSections: analyzeContract on the text of
\* each section in turn, an empty list for a section whose analysis threw.
\* The method itself never throws.
analyzeSections(contractSections, catalog, lastIndex) ==
  [threw |-> FALSE,
   sectionResults |->
     [k \in 1..Len(contractSections) |->
        LET analyzed == analyzeContract(contractSections[k], catalog, lastIndex)
        IN IF analyzed.ok THEN analyzed.out ELSE <<>>]]

\* Texts of sections: none, a line break, one clause, two clauses, a short
\* sentence, two sentences.
SectionTexts ==
  {<<>>, wBreak, <<" ">>, cPw, cNt, cGl, cNt \o cGl, sPw, cPw \o wDot \o cPi,
   cGl \o wDot \o cNt}

NotCalled == [threw |-> FALSE, sectionResults |-> <<>>]

SectionsInit ==
  /\ contracts = [d \in Docs |-> NoRow]
  /\ risk_findings = {}
  /\ conn = [c \in Conns |-> ConnFresh]
  /\ top = 1
  /\ overlaps = 0
  /\ nextId = 1
  /\ att = [a \in Attempts |-> AttIdle]
  /\ resp = NoResponse
  /\ scorer = ScorerIdle
  /\ agg = AggIdle
  /\ semantic = SemanticIdle
  /\ poller = PollerIdle
  /\ matcher \in [pc : {"sections"}, called : {FALSE},
                  contractSections :
                    SeqsUpTo(SectionTexts, MaxSections) \ {<<>>},
                  returned : {NotCalled}]

AnalyzeSections ==
  /\ matcher.pc = "sections"
  /\ ~matcher.called
  /\ matcher' = [matcher EXCEPT
       !.called = TRUE,
       !.returned = analyzeSections(matcher.contractSections, RISK_PATTERNS,
                                    [p \in PatternSlots |-> 0])]
  /\ OrchestratorIdle

SectionsNext == AnalyzeSections

SpecSections == SectionsInit /\ [][SectionsNext]_vars

\* testPattern called again and again on one text, with a run of
\* analyzeContract before, between or after.
TesterNext ==
  \/ ProbePattern
  \/ (AnalyzeSubject /\ Len(matcher.runs) = 0)

SpecTester == MatcherInit /\ [][TesterNext]_vars

\* Input checks: the Pattern Matcher run on any text, and uploads and start
\* requests whose attempts have not been scheduled yet.
InputNext ==
  \/ (AnalyzeSubject /\ Len(matcher.runs) = 0)
  \/ (\E text \in Texts : UploadContract(text) /\ UNCHANGED <<agg, matcher, semantic, poller>>)
  \/ (\E d \in Docs : AnalyzeContract(d) /\ UNCHANGED <<agg, matcher, semantic, poller>>)

SpecInput == MatcherInit /\ [][InputNext]_vars

\* ================================================================== claims
\* What is stored for document d: the committed row and finding rows.
Stored(d) ==
  IF contracts[d] = NoRow THEN NoRow
  ELSE [risk_score |-> contracts[d].risk_score,
        analysis_completed |-> contracts[d].analysis_completed,
        findings |-> {r.id : r \in RowsOf(risk_findings, d)}]

\* What attempt a hands to updateAnalysis.
Result(a) ==
  [risk_score |-> att[a].riskScore,
   analysis_completed |-> TRUE,
   findings |-> {<<a, i>> : i \in 1..Len(att[a].unique)}]

PristineRow(row) ==
  row = NoRow \/ (row.risk_score = NULL /\ ~row.analysis_completed)

\* No analysis result of d is stored, committed or pending on any client.
Pristine(d) ==
  /\ PristineRow(contracts[d])
  /\ RowsOf(risk_findings, d) = {}
  /\ \A c \in Conns :
       /\ conn[c].cw[d] = Untouched \/ PristineRow(conn[c].cw[d])
       /\ RowsOf(conn[c].ins, d) = {}

AttemptsOn(d) == {a \in Attempts : att[a].doc = d}

\* C1: at most one attempt per document is in flight at any time.
C1_AtMostOneInFlight ==
  \A d \in Docs : Cardinality({a \in AttemptsOn(d) : InFlight(a)}) <= 1

\* C2: a reader that sees analysis_completed = true sees the risk score and
\* the full finding set of one and the same attempt.
C2_ReadersSeeWholeResult ==
  /\ (resp.req = "results" /\ resp.http = 200) =>
       \E a \in AttemptsOn(resp.doc) :
         /\ att[a].openaiOk
         /\ resp.risk_score = Result(a).risk_score
         /\ resp.findings = Result(a).findings
  /\ (resp.req = "status" /\ resp.http = 200 /\ resp.status = "completed") =>
       \E a \in AttemptsOn(resp.doc) :
         /\ att[a].openaiOk
         /\ resp.riskScore = Result(a).risk_score
         /\ resp.findingsCount = Len(att[a].unique)

\* C3: an attempt whose Semantic Analyzer call has not succeeded changes no
\* stored state, and a document none of whose attempts got an answer from the
\* Semantic Analyzer has no analysis result, committed or pending.
C3_SemanticFailurePersistsNothing ==
  /\ [](\A d \in Docs :
          (\A a \in AttemptsOn(d) : ~att[a].openaiOk) => Pristine(d))
  /\ [][\A a \in Attempts :
          (att[a].pc # "idle" /\ att'[a] # att[a] /\ ~att'[a].openaiOk)
            => (contracts' = contracts /\ risk_findings' = risk_findings)]_vars

\* C3 witness: an attempt on a text with a pattern finding has ended after its
\* Semantic Analyzer call failed.
C3_Witness ==
  \E a \in Attempts :
    /\ att[a].pc = "failed"
    /\ att[a].text = NoticeText
    /\ att[a].error = "Failed to perform OpenAI analysis"

\* C4: a status query made after the document's latest attempt has failed
\* reports failed.
C4_FailedIsReported ==
  (resp.req = "status" /\ resp.http = 200 /\ resp.afterFailure)
    => resp.status = "failed"

\* C5: once every attempt that was started has succeeded, all of them for one
\* document, what is stored for the document is the result of one of them:
\* its score and exactly its findings, none left over from another attempt.
C5_ResultReplacedWholesale ==
  \A d \in Docs :
    (/\ AttemptsOn(d) # {}
     /\ \A b \in Attempts :
          att[b].doc \in {0, d} /\ att[b].pc \in {"idle", "done"})
      => \E a \in AttemptsOn(d) : Stored(d) = Result(a)

\* C6: when the only attempt ever started fails inside updateAnalysis, no
\* analysis result is stored for its document.
C6_FailedWriteLeavesNothing ==
  \A a \in Attempts :
    (/\ att[a].pc = "failed" /\ att[a].openaiOk
     /\ \A b \in Attempts \ {a} : att[b].pc = "idle")
      => Pristine(att[a].doc)

\* C7: an attempt that is the only one of its document and has succeeded has
\* its result stored, whatever attempts ran for other documents.
C7_OtherDocumentsDoNotInterfere ==
  \A b \in Attempts :
    (/\ att[b].pc = "done" /\ att[b].openaiOk
     /\ \A x \in Attempts \ {b} : att[x].doc # att[b].doc)
      => Stored(att[b].doc) = Result(b)

C9_CompletedStays ==
  [][(/\ resp.req = "status" /\ resp.http = 200 /\ resp.status = "completed"
      /\ resp'.req = "status" /\ resp'.doc = resp.doc /\ resp'.http = 200)
       => resp'.status = "completed"]_vars

\* C10: the scorer returns HIGH exactly when there is a HIGH finding or there
\* are at least five MEDIUM findings.
C10_HighIff ==
  scorer.out # "none" =>
    (scorer.out = "HIGH" <=> (scorer.high >= 1 \/ scorer.medium >= 5))

\* C10 witness: five MEDIUM findings and no HIGH finding were scored HIGH.
C10_Witness ==
  scorer.out = "HIGH" /\ scorer.high = 0 /\ scorer.medium = 5

\* LOW < MEDIUM < HIGH
Rank(level) == IF level = "HIGH" THEN 3 ELSE IF level = "MEDIUM" THEN 2 ELSE 1

\* C11: a finding set with no HIGH finding and at least one MEDIUM finding is
\* scored at least MEDIUM, never LOW.
C11_MediumAtLeastMedium ==
  (scorer.out # "none" /\ scorer.high = 0 /\ scorer.medium >= 1)
    => scorer.out # "LOW"

\* C12: scorer boundaries: no findings give LOW; exactly one HIGH finding
\* gives HIGH; five MEDIUM and no HIGH give HIGH; four MEDIUM and no HIGH give
\* MEDIUM; with no HIGH and no MEDIUM, MEDIUM from eight LOW findings on and
\* LOW below.
C12_Boundaries ==
  scorer.out # "none" =>
    /\ (scorer.high = 0 /\ scorer.medium = 0 /\ scorer.low = 0)
         => scorer.out = "LOW"
    /\ scorer.high = 1 => scorer.out = "HIGH"
    /\ (scorer.high = 0 /\ scorer.medium = 5) => scorer.out = "HIGH"
    /\ (scorer.high = 0 /\ scorer.medium = 4) => scorer.out = "MEDIUM"
    /\ (scorer.high = 0 /\ scorer.medium = 0 /\ scorer.low >= 8)
         => scorer.out = "MEDIUM"
    /\ (scorer.high = 0 /\ scorer.medium = 0 /\ scorer.low < 8)
         => scorer.out = "LOW"

\* C12 witness: eight LOW findings and nothing else were scored MEDIUM.
C12_Witness ==
  scorer.out = "MEDIUM" /\ scorer.high = 0 /\ scorer.medium = 0 /\ scorer.low = 8

\* C13: the score of a finding set with one more HIGH finding is never below
\* the score of the set itself.
C13_AddingHighNeverLowers ==
  (scorer.out # "none" /\ scorer.plus # "none")
    => Rank(scorer.plus) >= Rank(scorer.out)

\* C13 witness: a set of one HIGH finding, scored HIGH, was scored HIGH again
\* with a second HIGH finding added.
C13_Witness ==
  /\ scorer.out = "HIGH" /\ scorer.plus = "HIGH" /\ scorer.high = 1
  /\ scorer.medium = 0 /\ scorer.low = 0

\* The category and the first 100 characters of the text of a finding.
CategoryAndPrefix(f) ==
  <<f.risk_type,
    IF f.problematic_text = Undefined THEN Undefined
    ELSE Substring0(f.problematic_text, KeyPrefixLen)>>

AggInput == agg.pattern \o agg.openai

\* Positions of the input whose (category, text prefix) occurs at no earlier
\* position.
FirstOfItsKind ==
  {i \in 1..Len(AggInput) :
     \A j \in 1..(i - 1) :
       CategoryAndPrefix(AggInput[j]) # CategoryAndPrefix(AggInput[i])}

\* C14: the aggregator keeps exactly the findings whose (category, first 100
\* characters of text) was not seen earlier in its input: findings that
\* differ in category or in those characters are both kept.
C14_MergeIffSameCategoryAndPrefix ==
  agg.ran =>
    /\ Len(agg.out) = Cardinality(FirstOfItsKind)
    /\ \A i \in FirstOfItsKind : AggInput[i] \in Range(agg.out)

RECURSIVE IsSubseq(_, _)
IsSubseq(s, t) ==
  IF s = <<>> THEN TRUE
  ELSE IF t = <<>> THEN FALSE
  ELSE IF Head(s) = Head(t) THEN IsSubseq(Tail(s), Tail(t))
  ELSE IsSubseq(s, Tail(t))

\* C15: the aggregator's output is a subsequence of the Pattern Matcher's
\* findings followed by the Semantic Analyzer's, and where a finding of each
\* has the same deduplication key, the one finding kept with that key is the
\* Pattern Matcher's first with that key.
C15_FirstSeenWins ==
  agg.ran =>
    /\ IsSubseq(agg.out, AggInput)
    /\ \A i \in 1..Len(agg.pattern) : \A j \in 1..Len(agg.openai) :
         DedupKey(agg.pattern[i]) = DedupKey(agg.openai[j]) =>
           \E k \in 1..Len(agg.out) :
             /\ DedupKey(agg.out[k]) = DedupKey(agg.pattern[i])
             /\ \E i0 \in 1..i :
                  /\ agg.out[k] = agg.pattern[i0]
                  /\ \A h \in 1..(i0 - 1) :
                       DedupKey(agg.pattern[h]) # DedupKey(agg.pattern[i])
             /\ \A k2 \in 1..Len(agg.out) :
                  DedupKey(agg.out[k2]) = DedupKey(agg.out[k]) => k2 = k

\* C15 witness: the Pattern Matcher and the Semantic Analyzer reported the
\* same category and text with different explanations.
C15_Witness ==
  /\ agg.ran /\ agg.pattern = <<aShort>> /\ agg.openai = <<aShortOpenAI>>
  /\ agg.out = <<aShort>>

\* C16 as stated: aggregating a finding sequence with itself yields the
\* sequence itself.
C16_SelfAggregationYieldsS ==
  (agg.ran /\ agg.pattern = agg.openai) => agg.out = agg.pattern

KeysDistinct(findings) ==
  \A i, j \in 1..Len(findings) :
    DedupKey(findings[i]) = DedupKey(findings[j]) => i = j

\* C16 as amended: aggregating a finding sequence S with itself yields S
\* deduplicated, which is never longer than S and is S itself exactly when no
\* two findings of S have the same deduplication key.
C16_SelfAggregationDeduplicates ==
  (agg.ran /\ agg.pattern = agg.openai) =>
    /\ agg.out = deduplicateFindings(agg.pattern)
    /\ Len(agg.out) <= Len(agg.pattern)
    /\ agg.out = agg.pattern <=> KeysDistinct(agg.pattern)

\* C16 witness: a sequence of two findings with different keys was
\* aggregated with itself and came back unchanged.
C16_Witness ==
  /\ agg.ran /\ agg.pattern = agg.openai
  /\ agg.pattern = <<aLongX, aLong99>> /\ agg.out = agg.pattern

Runs == 1..Len(matcher.runs)

\* C17: two Pattern Matcher runs on the same text with the same catalog return
\* the same finding sequence, whatever runs on other texts and testPattern
\* calls came before or between them.
C17_MatcherDeterministic ==
  matcher.pc = "on" =>
    \A i, j \in Runs :
      matcher.runs[i].custom = matcher.runs[j].custom
        => matcher.runs[i].result = matcher.runs[j].result

\* C17 witness: a second run that returned findings started with an
\* expression whose lastIndex a testPattern call had moved.
C17_Witness ==
  /\ matcher.pc = "on" /\ Len(matcher.runs) = 2
  /\ matcher.runs[1].custom = matcher.runs[2].custom
  /\ \E p \in PatternSlots : matcher.runs[2].seen[p] > 0
  /\ matcher.runs[2].result.out # <<>>

PositionIn(findings, finding) ==
  CHOOSE k \in 1..Len(findings) : findings[k] = finding

\* C19: the Pattern Matcher returns its findings HIGH first, then MEDIUM, then
\* LOW, and findings of one severity in the order they were discovered.
C19_SortedAndStable ==
  matcher.pc = "on" =>
    \A i \in Runs :
      LET out == matcher.runs[i].result.out
          discovered == matcher.runs[i].result.unique
      IN /\ Len(out) = Len(discovered)
         /\ Range(out) = Range(discovered)
         /\ \A k \in 1..Len(out) : \A k2 \in (k + 1)..Len(out) :
              /\ riskOrder(out[k].risk_level) >= riskOrder(out[k2].risk_level)
              /\ out[k].risk_level = out[k2].risk_level =>
                   PositionIn(discovered, out[k]) < PositionIn(discovered, out[k2])

\* C19 witness: a run returned its findings in another order than it
\* discovered them, two of them of the same severity.
C19_Witness ==
  /\ matcher.pc = "on"
  /\ \E i \in Runs :
       LET out == matcher.runs[i].result.out IN
       /\ out # matcher.runs[i].result.unique
       /\ \E k \in 1..Len(out) : \E k2 \in (k + 1)..Len(out) :
            out[k].risk_level = out[k2].risk_level

\* C20: no two findings of a run are built from the same pattern and the same
\* sentence, among the findings pushed and so among those returned.
C20_OnePerPatternAndSentence ==
  matcher.pc = "on" =>
    \A i \in Runs :
      LET r == matcher.runs[i].result IN
      /\ \A k, k2 \in 1..Len(r.hits) : r.hits[k] = r.hits[k2] => k = k2
      /\ Len(r.out) <= Len(r.findings)
      /\ \A k \in 1..Len(r.out) : r.out[k] \in Range(r.findings)

\* C20 witness: a sentence with two different phrases of one pattern gave one
\* finding.
C20_Witness ==
  /\ matcher.pc = "on" /\ matcher.text = cPw \o cPi
  /\ Len(matcher.runs) >= 1
  /\ Len(matcher.runs[1].result.out) = 1

ScenarioB == <<cTerminate, cWrittenNotice>>

SingleClauseTests == {<<cWrittenNotice>>, <<cReserves>>}

Categories(findings) ==
  [i \in 1..Len(findings) |-> <<findings[i].risk_type, findings[i].risk_level>>]

\* C21: on the text of Scenario B the Pattern Matcher returns exactly two
\* findings, TERMINATION/MEDIUM and NOTICE_REQUIREMENTS/MEDIUM, and the Scorer
\* gives MEDIUM; on the single-clause texts of the unit tests it returns
\* exactly one finding.
C21_ScenarioB ==
  (matcher.pc = "scenario" /\ matcher.stage # "text") =>
    /\ matcher.clauses = ScenarioB =>
         /\ Len(matcher.result.out) = 2
         /\ Range(Categories(matcher.result.out))
              = {<<TERMINATION, "MEDIUM">>, <<NOTICE_REQUIREMENTS, "MEDIUM">>}
         /\ matcher.stage = "scored" => matcher.score = "MEDIUM"
    /\ matcher.clauses \in SingleClauseTests => Len(matcher.result.out) = 1

Calls == 1..Len(semantic.calls)

\* A finding of the upstream response with a category, a severity of the three
\* and a text.
ValidUpstreamFinding(finding) ==
  /\ finding # uNull
  /\ finding.risk_type # Undefined
  /\ finding.risk_level \in Levels
  /\ finding.problematic_text # Undefined

MalformedResponse(upstream) ==
  /\ ~upstream.throws
  /\ upstream.completion.content
  /\ \/ ~upstream.completion.json
     \/ ~upstream.completion.findings.present
     \/ ~upstream.completion.findings.array
     \/ \E i \in 1..Len(upstream.completion.findings.elements) :
          ~ValidUpstreamFinding(upstream.completion.findings.elements[i])

\* The call reached the upstream, which threw for one of the causes.
UpstreamFailed(call, causes) ==
  /\ ~IsBlank(call.text) /\ semantic.apiKey
  /\ call.upstream.throws /\ call.upstream.error.cause \in causes

\* C22: the Semantic Analyzer client returns no finding list when the input is
\* empty, authentication fails, quota or rate limit is exhausted, or the
\* upstream response is malformed; the call fails with an error.
C22_FailsExplicitly ==
  semantic.pc = "on" =>
    \A i \in Calls :
      LET call == semantic.calls[i] IN
      (\/ IsBlank(call.text)
       \/ ~semantic.apiKey
       \/ UpstreamFailed(call, {"auth", "rate_limit", "quota"})
       \/ MalformedResponse(call.upstream))
        => ~call.result.ok

\* C23: a call that failed on a timeout or a rate limit and a call that failed
\* on a malformed response never surface the same error message.
C23_CausesDistinguishable ==
  semantic.pc = "on" =>
    \A i, j \in Calls :
      LET transient == semantic.calls[i]
          structural == semantic.calls[j]
      IN (/\ UpstreamFailed(transient, {"timeout", "rate_limit"})
          /\ ~IsBlank(structural.text) /\ semantic.apiKey
          /\ MalformedResponse(structural.upstream)
          /\ ~structural.result.ok)
           => transient.result.error # structural.result.error

\* C24: the list of patterns analyzeContract applies is the list the process
\* started with, whatever operations of the Matcher service ran before.
C24_CatalogNeverMutated ==
  matcher.pc = "on" =>
    \A i \in Runs : Catalog(matcher.runs[i].custom) = RISK_PATTERNS

Probes == 1..Len(matcher.tested)

\* The named pattern of the catalog matches somewhere in the text.
MatchesSomewhere(text, catalog, patternName) ==
  /\ FindPattern(catalog, patternName) # 0
  /\ ExecFrom(text, catalog[FindPattern(catalog, patternName)].alts, 1).index
       # 0

\* C25: testPattern(text, name) throws for a name that is not in the catalog
\* and otherwise returns true exactly when the named pattern matches somewhere
\* in the text, whatever calls came before; so two calls with the same text
\* and name give the same result.
C25_TestPatternIsAFunction ==
  matcher.pc = "on" =>
    \A i \in Probes :
      LET probe == matcher.tested[i]
          catalog == Catalog(probe.custom)
      IN /\ probe.threw <=> FindPattern(catalog, probe.patternName) = 0
         /\ ~probe.threw =>
              (probe.result
                 <=> MatchesSomewhere(matcher.text, catalog, probe.patternName))

\* The pieces the terminators cut the normalized text into, short ones too.
Pieces(contractText) == SplitFrom(normalize(contractText), 1)

\* Some finding of the category quotes a sentence that contains the match.
Attributed(contractText, match, riskType, findings) ==
  \E k \in 1..Len(Pieces(contractText)) :
    LET sentence == Pieces(contractText)[k] IN
    /\ includes(toLowerCase(sentence), toLowerCase(match))
    /\ \E f \in 1..Len(findings) :
         /\ findings[f].risk_type = riskType
         /\ includes(findings[f].problematic_text, trim(sentence))

\* C27: for every catalog pattern and each of its matches in the text, the
\* Pattern Matcher output holds a finding of the pattern's category whose text
\* includes a sentence that contains the match, also when the sentence has ten
\* characters or fewer.
C27_EveryMatchAttributed ==
  matcher.pc = "on" =>
    \A i \in Runs :
      LET run == matcher.runs[i]
          catalog == Catalog(run.custom)
      IN run.result.ok =>
           \A p \in 1..Len(catalog) :
             LET matches == StringMatch(normalize(matcher.text), catalog[p], 0)
             IN \A m \in 1..Len(matches) :
                  Attributed(matcher.text, matches[m], catalog[p].riskType,
                             run.result.out)

\* C28: when the analysis of a section's text fails, the caller of
\* analyzeSections receives an error and no finding list for that text.
C28_NoErrorSwallowed ==
  (matcher.pc = "sections" /\ matcher.called) =>
    \A k \in 1..Len(matcher.contractSections) :
      ~analyzeContract(matcher.contractSections[k], RISK_PATTERNS,
                       [p \in PatternSlots |-> 0]).ok
        => matcher.returned.threw

\* C26: the finding rows a successful attempt stored for a document are in
\* the order HIGH, MEDIUM, LOW: a row inserted before another has a severity
\* at least as high.
C26_StoredFindingsOrdered ==
  \A r1, r2 \in risk_findings :
    (/\ r1.contract_id = r2.contract_id
     /\ r1.id[1] = r2.id[1]
     /\ att[r1.id[1]].pc = "done"
     /\ r1.id[2] < r2.id[2])
      => riskOrder(r1.risk_level) >= riskOrder(r2.risk_level)

\* C29: once every attempt has ended, no pooled client is inside a
\* transaction, open or aborted.
C29_NoTransactionLeftOpen ==
  (\A a \in Attempts : ~InFlight(a))
    => \A c \in Conns : conn[c].tx = "none"

\* What ends the polling at one answer, callback included: a request error,
\* a throw of the progress callback, 'completed', 'failed'.
Ends(answer) ==
  \/ ~answer.upstream.ok
  \/ answer.threw
  \/ answer.upstream.data.status \in {"completed", "failed"}

\* The same, as the answer alone decides it.
Terminal(answer) ==
  \/ ~answer.upstream.ok
  \/ answer.upstream.data.status \in {"completed", "failed"}

SettledAsStated(p) ==
  LET n == Len(p.answers)
      last == p.answers[n]
  IN /\ n >= 1
     /\ \A i \in 1..(n - 1) : ~Terminal(p.answers[i])
     /\ IF ~last.upstream.ok THEN p.outcome.state = "rejected"
        ELSE IF last.upstream.data.status = "completed"
          THEN p.outcome = Resolved("completed")
        ELSE IF last.upstream.data.status = "failed"
          THEN p.outcome.state = "rejected"
        ELSE n = p.maxAttempts /\ p.outcome = Rejected(PollingTimeout)

SettledWithCallback(p) ==
  LET n == Len(p.answers)
      last == p.answers[n]
  IN /\ n >= 1
     /\ \A i \in 1..(n - 1) : ~Ends(p.answers[i])
     /\ IF ~last.upstream.ok
          THEN p.outcome = Rejected(handleApiError(last.upstream.error))
        ELSE IF last.threw THEN p.outcome = Rejected(ProgressError)
        ELSE IF last.upstream.data.status = "completed"
          THEN p.outcome = Resolved("completed")
        ELSE IF last.upstream.data.status = "failed"
          THEN p.outcome =
                 Rejected(OrElse(last.upstream.data.error, "Analysis failed"))
        ELSE n = p.maxAttempts /\ p.outcome = Rejected(PollingTimeout)

Bounded(p) ==
  /\ p.requests <= p.maxAttempts
  /\ p.settles <= 1
  /\ (p.outcome # Pending) <=> (p.pc = "returned")

\* C30 as stated: pollAnalysisStatus issues at most maxAttempts requests,
\* settles once and sends nothing afterwards; it resolves on the first
\* 'completed' answer, rejects on the first 'failed' answer or request error,
\* and rejects with the polling timeout when the maxAttempts-th answer is
\* still not terminal.
C30_SettlesAsStated ==
  poller.pc # "off" =>
    /\ Bounded(poller)
    /\ poller.pc = "returned" => SettledAsStated(poller)

\* C30, amended: the same, and a progress callback that throws at an answer
\* ends the polling there with a rejection carrying the callback's error,
\* whatever the answer's status; when every request is answered, the promise
\* settles.
C30_PollingTerminates ==
  /\ [](poller.pc # "off" =>
          /\ Bounded(poller)
          /\ poller.pc = "returned" => SettledWithCallback(poller))
  /\ <>(poller.pc \in {"off", "returned"})

\* The polling ran out of attempts: maxAttempts answers, none of them
\* terminal, and the promise rejected with the polling timeout.
C30_Witness ==
  /\ poller.pc = "returned"
  /\ poller.maxAttempts >= 2
  /\ Len(poller.answers) = poller.maxAttempts
  /\ poller.requests = poller.maxAttempts
  /\ poller.outcome = Rejected(PollingTimeout)

====
